---- MODULE Spec2Model ----
(***************************************************************************)
(* A model of the go-fsutil library: the path helpers, Touch/Mkdirp/Exists, *)
(* the directory listing with glob ignore patterns, Move/Copy and          *)
(* Zip/Unzip, over an explicit file system.                                *)
(*                                                                         *)
(* Strings are sequences of one-character strings, so that prefix tests,   *)
(* substring replacement, path cleaning and glob matching are computed     *)
(* character by character as the Go code computes them.  The file system   *)
(* is a function from absolute clean paths to nodes.                       *)
(***************************************************************************)
EXTENDS Integers, Sequences, FiniteSets, TLC

VARIABLES fs, priv, last, calls

vars == <<fs, priv, last, calls>>

(***************************************************************************)
(* Strings                                                                 *)
(***************************************************************************)
Sep == "/"

\* the position of a character among the characters the model uses, in byte
\* order
Ord(c) ==
  LET alphabet == <<"*", "-", ".", "/", "?", "[", "\\", "]", "^",
                    "a", "b", "c", "d", "e", "f", "g", "h", "i", "j", "k", "l", "m",
                    "n", "o", "p", "q", "r", "s", "t", "u", "v", "w", "x", "y", "z">>
  IN CHOOSE i \in 1..Len(alphabet) : alphabet[i] = c

RECURSIVE StrLess(_, _)
StrLess(a, b) ==
  IF b = <<>> THEN FALSE
  ELSE IF a = <<>> THEN TRUE
  ELSE IF Head(a) = Head(b) THEN StrLess(Tail(a), Tail(b))
  ELSE Ord(Head(a)) < Ord(Head(b))

HasPrefix(s, p) == Len(p) <= Len(s) /\ SubSeq(s, 1, Len(p)) = p

\* strings.Replace(s, old, new, 1): the first occurrence of old is replaced
Replace1(s, old, new) ==
  LET hits == {i \in 1..(Len(s) - Len(old) + 1) : SubSeq(s, i, i + Len(old) - 1) = old}
      at(i) == SubSeq(s, 1, i - 1) \o new \o SubSeq(s, i + Len(old), Len(s))
  IN IF hits = {} THEN s ELSE at(CHOOSE i \in hits : \A j \in hits : i <= j)

\* the last position of character c in s, 0 when absent
LastIndexOf(s, c) ==
  LET hits == {i \in 1..Len(s) : s[i] = c}
  IN IF hits = {} THEN 0 ELSE CHOOSE i \in hits : \A j \in hits : j <= i

\* the non-empty elements of a path
Segments(s) ==
  LET RECURSIVE split(_, _, _)
      split(r, cur, acc) ==
        IF r = <<>> THEN (IF cur = <<>> THEN acc ELSE Append(acc, cur))
        ELSE IF Head(r) = Sep
             THEN split(Tail(r), <<>>, IF cur = <<>> THEN acc ELSE Append(acc, cur))
             ELSE split(Tail(r), Append(cur, Head(r)), acc)
  IN split(s, <<>>, <<>>)

RECURSIVE JoinSegs(_)
JoinSegs(segs) ==
  IF segs = <<>> THEN <<>>
  ELSE IF Len(segs) = 1 THEN Head(segs)
  ELSE Head(segs) \o <<Sep>> \o JoinSegs(Tail(segs))

IsAbs(p) == p # <<>> /\ p[1] = Sep

\* filepath.Clean
Clean(p) ==
  LET RECURSIVE cleanSegs(_, _)
      cleanSegs(segs, out) ==
        IF segs = <<>> THEN out
        ELSE IF Head(segs) = <<".">> THEN cleanSegs(Tail(segs), out)
        ELSE IF Head(segs) = <<".", ".">>
             THEN IF out # <<>> /\ out[Len(out)] # <<".", ".">>
                  THEN cleanSegs(Tail(segs), SubSeq(out, 1, Len(out) - 1))
                  ELSE IF IsAbs(p) THEN cleanSegs(Tail(segs), out)
                  ELSE cleanSegs(Tail(segs), Append(out, Head(segs)))
             ELSE cleanSegs(Tail(segs), Append(out, Head(segs)))
      cleaned(out) == IF IsAbs(p) THEN <<Sep>> \o out ELSE IF out = <<>> THEN <<".">> ELSE out
  IN IF p = <<>> THEN <<".">> ELSE cleaned(JoinSegs(cleanSegs(Segments(p), <<>>)))

\* filepath.Join of two elements
Join(a, b) ==
  IF a = <<>> /\ b = <<>> THEN <<>>
  ELSE IF a = <<>> THEN Clean(b)
  ELSE Clean(a \o <<Sep>> \o b)

\* filepath.Dir
Dir(p) == Clean(SubSeq(p, 1, LastIndexOf(p, Sep)))

\* filepath.Base
Base(p) ==
  LET RECURSIVE trim(_)
      trim(t) == IF t # <<>> /\ t[Len(t)] = Sep THEN trim(SubSeq(t, 1, Len(t) - 1)) ELSE t
      element(t) == IF t = <<>> THEN <<Sep>> ELSE SubSeq(t, LastIndexOf(t, Sep) + 1, Len(t))
  IN IF p = <<>> THEN <<".">> ELSE element(trim(p))

\* filepath.Ext: the suffix from the last dot of the last element
Ext(p) ==
  LET d == LastIndexOf(p, ".")
  IN IF d > LastIndexOf(p, Sep) THEN SubSeq(p, d, Len(p)) ELSE <<>>

\* the working directory of the process
Cwd == <<"/", "w">>

\* Abs: filepath.Abs with the error dropped
Abs(p) == IF IsAbs(p) THEN Clean(p) ELSE Join(Cwd, p)

(***************************************************************************)
(* The file system                                                         *)
(***************************************************************************)
Nil == "nil"

\* the errors of the system calls and of the standard library
Errno ==
  [ENOENT |-> "ENOENT", ENOTDIR |-> "ENOTDIR", EACCES |-> "EACCES", EISDIR |-> "EISDIR",
   EEXIST |-> "EEXIST", EINVAL |-> "EINVAL", EIO |-> "EIO",
   ErrBadPattern |-> "ErrBadPattern", ErrFormat |-> "not a valid zip file",
   SkipDir |-> "SkipDir"]

\* the owner permission bits of the modes the code uses
Perm ==
  [m0777 |-> {"r", "w", "x"}, m0755 |-> {"r", "w", "x"},
   m0666 |-> {"r", "w"}, m0644 |-> {"r", "w"}]

DirNode(perm) ==
  [kind |-> "dir", perm |-> perm, data |-> "", fmt |-> "raw", zip |-> <<>>, to |-> <<>>]

FileNode(data, perm) ==
  [kind |-> "file", perm |-> perm, data |-> data, fmt |-> "raw", zip |-> <<>>, to |-> <<>>]

LinkNode(to) ==
  [kind |-> "link", perm |-> Perm.m0777, data |-> "", fmt |-> "raw", zip |-> <<>>, to |-> to]

\* a file that holds a zip archive
ZipNode(entries, perm) ==
  [kind |-> "file", perm |-> perm, data |-> "", fmt |-> "zip", zip |-> entries, to |-> <<>>]

\* the file information that comes with an error
NoInfo == [kind |-> "none", perm |-> {}, data |-> "", fmt |-> "raw", zip |-> <<>>, to |-> <<>>]

\* a permission check of the kernel: a privileged user passes every one
Allowed(node, bit) == priv \/ bit \in node.perm

\* the first of two errors
FirstErr(e1, e2) == IF e1 # Nil THEN e1 ELSE e2

\* the error of reaching the parent directory of absolute path a: the first
\* failure among the directories above it
ParentErr(f, a) ==
  LET through(q) ==
        IF q \notin DOMAIN f THEN Errno.ENOENT
        ELSE IF f[q].kind # "dir" THEN Errno.ENOTDIR
        ELSE IF ~Allowed(f[q], "x") THEN Errno.EACCES
        ELSE Nil
      RECURSIVE from(_, _)
      from(segs, i) ==
        IF i >= Len(segs) THEN Nil
        ELSE FirstErr(through(<<Sep>> \o JoinSegs(SubSeq(segs, 1, i))), from(segs, i + 1))
  IN from(Segments(a), 0)

\* the error of reaching absolute path a
LookupErr(f, a) == FirstErr(ParentErr(f, a), IF a \notin DOMAIN f THEN Errno.ENOENT ELSE Nil)

\* os.Lstat
Lstat(f, p) ==
  LET info(a, e) ==
        IF e # Nil THEN [err |-> e, info |-> NoInfo] ELSE [err |-> Nil, info |-> f[a]]
      at(a) == info(a, LookupErr(f, a))
  IN at(Abs(p))

\* the path a system call that follows symbolic links operates on
Real(f, p) ==
  LET resolve(a) ==
        IF a \in DOMAIN f /\ f[a].kind = "link"
        THEN (IF IsAbs(f[a].to) THEN Clean(f[a].to) ELSE Join(Dir(a), f[a].to))
        ELSE a
  IN resolve(Abs(p))

\* os.Stat
Stat(f, p) ==
  LET follow(a, e) == IF e # Nil THEN [err |-> e, info |-> NoInfo] ELSE Lstat(f, Real(f, a))
      at(a) == follow(a, LookupErr(f, a))
  IN at(Abs(p))

\* os.Readlink
Readlink(f, p) ==
  LET of(l) ==
        IF l.err # Nil THEN [err |-> l.err, to |-> <<>>]
        ELSE IF l.info.kind # "link" THEN [err |-> Errno.EINVAL, to |-> <<>>]
        ELSE [err |-> Nil, to |-> l.info.to]
  IN of(Lstat(f, p))

\* a set of names as a sequence in byte order
SortNames(S) ==
  LET least(T) == CHOOSE x \in T : \A y \in T : y = x \/ StrLess(x, y)
      RECURSIVE from(_, _)
      from(T, m) == IF T = {} THEN <<>> ELSE <<m>> \o from(T \ {m}, least(T \ {m}))
  IN from(S, least(S))

\* the sorted names of the entries of directory p (readDirNames of filepath.Walk)
ReadDirNames(f, p) ==
  LET at(a) ==
        IF ~Allowed(f[a], "r") THEN [err |-> Errno.EACCES, names |-> <<>>]
        ELSE [err |-> Nil,
              names |-> SortNames({Base(q) : q \in {c \in DOMAIN f : c # a /\ Dir(c) = a}})]
  IN at(Abs(p))

Put(f, a, node) == [q \in DOMAIN f \cup {a} |-> IF q = a THEN node ELSE f[q]]

Remove(f, a) == [q \in DOMAIN f \ {a} |-> f[q]]

\* os.MkdirAll: no error when the path is a directory already, the parent is
\* made first, and a failed os.Mkdir is no error when the path is a directory
MkdirAll(f, p, perm) ==
  LET RECURSIVE all(_, _)
      mkdirAt(g, a, e) ==
        IF e # Nil THEN [fs |-> g, err |-> e]
        ELSE IF a \in DOMAIN g THEN [fs |-> g, err |-> Errno.EEXIST]
        ELSE IF ~Allowed(g[Dir(a)], "w") THEN [fs |-> g, err |-> Errno.EACCES]
        ELSE [fs |-> Put(g, a, DirNode(perm)), err |-> Nil]
      isDir(g, mk, ls) ==
        IF ls.err = Nil /\ ls.info.kind = "dir" THEN [fs |-> g, err |-> Nil] ELSE mk
      made(g, a, mk) == IF mk.err = Nil THEN mk ELSE isDir(g, mk, Lstat(g, a))
      parent(a, up) ==
        IF up.err # Nil THEN up ELSE made(up.fs, a, mkdirAt(up.fs, a, ParentErr(up.fs, a)))
      stat(g, a, st) ==
        IF st.err = Nil
        THEN [fs |-> g, err |-> IF st.info.kind = "dir" THEN Nil ELSE Errno.ENOTDIR]
        ELSE parent(a, IF a = <<Sep>> THEN [fs |-> g, err |-> Nil] ELSE all(g, Dir(a)))
      all(g, a) == stat(g, a, Stat(g, a))
  IN all(f, Abs(p))

\* os.OpenFile of a path for writing with O_CREATE|O_TRUNC, then a write of
\* data: needRead is set for O_RDWR
OpenWrite(f, p, data, perm, needRead) ==
  LET at(a, e) ==
        IF e # Nil THEN [fs |-> f, err |-> e]
        ELSE IF a \in DOMAIN f
             THEN IF f[a].kind = "dir" THEN [fs |-> f, err |-> Errno.EISDIR]
                  ELSE IF ~Allowed(f[a], "w") \/ (needRead /\ ~Allowed(f[a], "r"))
                       THEN [fs |-> f, err |-> Errno.EACCES]
                  ELSE [fs |-> Put(f, a, FileNode(data, f[a].perm)), err |-> Nil]
             ELSE IF ~Allowed(f[Dir(a)], "w") THEN [fs |-> f, err |-> Errno.EACCES]
             ELSE [fs |-> Put(f, a, FileNode(data, perm)), err |-> Nil]
      open(a) == at(a, ParentErr(f, a))
  IN open(Real(f, p))

\* a WriteFile that leaves a file that is already there as it is: a copy
\* would not truncate its destination (C27 fails under it)
WriteFileKeepExisting(f, p, data, perm) ==
  IF Real(f, p) \in DOMAIN f /\ f[Real(f, p)].kind = "file"
  THEN [fs |-> f, err |-> Nil]
  ELSE OpenWrite(f, p, data, perm, FALSE)

\* ioutil.WriteFile
WriteFile(f, p, data, perm) == OpenWrite(f, p, data, perm, FALSE)

\* os.Create
Create(f, p) == OpenWrite(f, p, "", Perm.m0666, TRUE)

\* ioutil.ReadFile
ReadFile(f, p) ==
  LET at(a, e) ==
        IF e # Nil THEN [err |-> e, data |-> ""]
        ELSE IF f[a].kind = "dir" THEN [err |-> Errno.EISDIR, data |-> ""]
        ELSE IF ~Allowed(f[a], "r") THEN [err |-> Errno.EACCES, data |-> ""]
        ELSE [err |-> Nil, data |-> f[a].data]
      read(a) == at(a, LookupErr(f, a))
  IN read(Real(f, p))

\* a Rename that leaves the old name in place: a moved file would still be
\* under the source (C30 fails under it)
RenameKeepSource(f, old, new) ==
  LET at(a, b, ea, eb) ==
        IF ea # Nil THEN [fs |-> f, err |-> ea]
        ELSE IF eb # Nil THEN [fs |-> f, err |-> eb]
        ELSE [fs |-> Put(f, b, f[a]), err |-> Nil]
  IN at(Abs(old), Abs(new), LookupErr(f, Abs(old)), ParentErr(f, Abs(new)))

\* os.Rename of a node that is not a directory
Rename(f, old, new) ==
  LET at(a, b, ea, eb) ==
        IF ea # Nil THEN [fs |-> f, err |-> ea]
        ELSE IF eb # Nil THEN [fs |-> f, err |-> eb]
        ELSE IF ~Allowed(f[Dir(a)], "w") \/ ~Allowed(f[Dir(b)], "w")
             THEN [fs |-> f, err |-> Errno.EACCES]
        ELSE IF b \in DOMAIN f /\ f[b].kind = "dir" THEN [fs |-> f, err |-> Errno.EISDIR]
        ELSE IF a = b THEN [fs |-> f, err |-> Nil]
        ELSE [fs |-> Put(Remove(f, a), b, f[a]), err |-> Nil]
      rename(a, b) == at(a, b, LookupErr(f, a), ParentErr(f, b))
  IN rename(Abs(old), Abs(new))

(***************************************************************************)
(* filepath.Match, as isIgnoredPath calls it                               *)
(***************************************************************************)
\* scanChunk: whether stars lead the pattern, the chunk after them (up to
\* the next star outside a character class), and the rest
ScanChunk(pattern) ==
  LET RECURSIVE strip(_)
      strip(p) == IF p # <<>> /\ Head(p) = "*" THEN strip(Tail(p)) ELSE p
      RECURSIVE scanEnd(_, _, _)
      scanEnd(p, i, inrange) ==
        IF i > Len(p) THEN Len(p)
        ELSE IF p[i] = "\\"
             THEN scanEnd(p, IF i + 1 <= Len(p) THEN i + 2 ELSE i + 1, inrange)
        ELSE IF p[i] = "[" THEN scanEnd(p, i + 1, TRUE)
        ELSE IF p[i] = "]" THEN scanEnd(p, i + 1, FALSE)
        ELSE IF p[i] = "*" /\ ~inrange THEN i - 1
        ELSE scanEnd(p, i + 1, inrange)
      chunkAt(p, n) ==
        [star |-> p # pattern, chunk |-> SubSeq(p, 1, n), rest |-> SubSeq(p, n + 1, Len(p))]
      chunkOf(p) == chunkAt(p, scanEnd(p, 1, FALSE))
  IN chunkOf(strip(pattern))

\* getEsc: one end of a range of a character class
GetEsc(chunk) ==
  LET bad == [r |-> "", chunk |-> <<>>, err |-> Errno.ErrBadPattern]
      of(c) ==
        IF c = <<>> \/ Tail(c) = <<>> THEN bad
        ELSE [r |-> Head(c), chunk |-> Tail(c), err |-> Nil]
  IN IF chunk = <<>> \/ Head(chunk) = "-" \/ Head(chunk) = "]" THEN bad
     ELSE of(IF Head(chunk) = "\\" THEN Tail(chunk) ELSE chunk)

\* matchChunk: after a mismatch the chunk is still read to its end, for its
\* syntax
MatchChunk(chunk0, s0) ==
  LET bad == [rest |-> <<>>, ok |-> FALSE, err |-> Errno.ErrBadPattern]
      badClass == [chunk |-> <<>>, match |-> FALSE, err |-> Errno.ErrBadPattern]
      runeIn(lo, r, hi) == r # "" /\ Ord(lo) <= Ord(r) /\ Ord(r) <= Ord(hi)
      RECURSIVE parseClass(_, _, _, _)
      classHi(lo, hi, r, match, nrange) ==
        IF hi.err # Nil THEN badClass
        ELSE parseClass(hi.chunk, r, match \/ runeIn(lo.r, r, hi.r), nrange + 1)
      classLo(lo, r, match, nrange) ==
        IF lo.err # Nil THEN badClass
        ELSE IF Head(lo.chunk) = "-" THEN classHi(lo, GetEsc(Tail(lo.chunk)), r, match, nrange)
        ELSE parseClass(lo.chunk, r, match \/ runeIn(lo.r, r, lo.r), nrange + 1)
      \* the ranges of a character class, up to its closing bracket
      parseClass(chunk, r, match, nrange) ==
        IF chunk # <<>> /\ Head(chunk) = "]" /\ nrange > 0
        THEN [chunk |-> Tail(chunk), match |-> match, err |-> Nil]
        ELSE classLo(GetEsc(chunk), r, match, nrange)
      RECURSIVE from(_, _, _)
      class(cls, s1, failed, negated) ==
        IF cls.err # Nil THEN bad ELSE from(cls.chunk, s1, failed \/ (cls.match = negated))
      literal(lit, s, s1, failed) ==
        IF lit = <<>> THEN bad ELSE from(Tail(lit), s1, failed \/ Head(lit) # Head(s))
      from(chunk, s, wasFailed) ==
        IF chunk = <<>>
        THEN (IF wasFailed THEN [rest |-> <<>>, ok |-> FALSE, err |-> Nil]
              ELSE [rest |-> s, ok |-> TRUE, err |-> Nil])
        ELSE LET failed == wasFailed \/ s = <<>>
                 c == Head(chunk)
                 s1 == IF failed THEN s ELSE Tail(s)
                 negated == Tail(chunk) # <<>> /\ Head(Tail(chunk)) = "^"
             IN IF c = "["
                THEN class(parseClass(IF negated THEN Tail(Tail(chunk)) ELSE Tail(chunk),
                                      IF failed THEN "" ELSE Head(s), FALSE, 0),
                           s1, failed, negated)
                ELSE IF c = "?" THEN from(Tail(chunk), s1, failed \/ Head(s) = Sep)
                ELSE literal(IF c = "\\" THEN Tail(chunk) ELSE chunk, s, s1, failed)
  IN from(chunk0, s0, FALSE)

\* filepath.Match(pattern, name): a star matches any run of characters that
\* are not separators; a pattern that does not match is still checked for
\* its syntax
RECURSIVE Match(_, _)
Match(pattern, name) ==
  LET notFound == [found |-> FALSE, rest |-> <<>>, err |-> Nil]
      RECURSIVE starSkip(_, _, _)
      starTry(m, chunk, rest, i) ==
        IF m.ok
        THEN (IF rest = <<>> /\ m.rest # <<>> THEN starSkip(chunk, rest, i + 1)
              ELSE [found |-> TRUE, rest |-> m.rest, err |-> Nil])
        ELSE IF m.err # Nil THEN [found |-> FALSE, rest |-> <<>>, err |-> m.err]
        ELSE starSkip(chunk, rest, i + 1)
      \* a star before the chunk: the chunk is tried after skipping 1, 2, ...
      \* characters of the name, never a separator
      starSkip(chunk, rest, i) ==
        IF i > Len(name) \/ name[i] = Sep THEN notFound
        ELSE starTry(MatchChunk(chunk, SubSeq(name, i + 1, Len(name))), chunk, rest, i)
      RECURSIVE checkRest(_)
      checkChunk(sc) == FirstErr(MatchChunk(sc.chunk, <<>>).err, checkRest(sc.rest))
      \* the syntax check of the rest of a pattern that did not match
      checkRest(p) == IF p = <<>> THEN Nil ELSE checkChunk(ScanChunk(p))
      star(sc, st) ==
        IF st.found THEN Match(sc.rest, st.rest)
        ELSE IF st.err # Nil THEN [matched |-> FALSE, err |-> st.err]
        ELSE [matched |-> FALSE, err |-> checkRest(sc.rest)]
      tried(sc, m) ==
        IF m.ok /\ (m.rest = <<>> \/ sc.rest # <<>>) THEN Match(sc.rest, m.rest)
        ELSE IF m.err # Nil THEN [matched |-> FALSE, err |-> m.err]
        ELSE star(sc, IF sc.star THEN starSkip(sc.chunk, sc.rest, 1) ELSE notFound)
      scanned(sc) ==
        IF sc.star /\ sc.chunk = <<>>
        THEN [matched |-> \A i \in 1..Len(name) : name[i] # Sep, err |-> Nil]
        ELSE tried(sc, MatchChunk(sc.chunk, name))
  IN IF pattern = <<>> THEN [matched |-> name = <<>>, err |-> Nil]
     ELSE scanned(ScanChunk(pattern))

\* the error isIgnoredPath returns for a path that a pattern matches
Ignored == "Ignored"

\* an isIgnoredPath that asks the first pattern alone: the order of the
\* patterns would decide what is excluded (C24 fails under it)
isIgnoredPathFirst(path, ignore) ==
  IF ignore = <<>> THEN Nil
  ELSE IF Match(Head(ignore), path).err # Nil THEN Match(Head(ignore), path).err
  ELSE IF Match(Head(ignore), path).matched THEN Ignored
  ELSE Nil

\* isIgnoredPath: nil, or the error that stands for "ignored", or the
\* pattern error
RECURSIVE isIgnoredPath(_, _)
isIgnoredPath(path, ignore) ==
  LET ignoredBy(m) ==
        IF m.err # Nil THEN m.err
        ELSE IF m.matched THEN Ignored
        ELSE isIgnoredPath(path, Tail(ignore))
  IN IF ignore = <<>> THEN Nil ELSE ignoredBy(Match(Head(ignore), path))

(***************************************************************************)
(* Exists, Mkdirp, Touch, IsSymlink                                        *)
(***************************************************************************)
\* Exists: false only when the stat fails with "not exist"
Exists(f, path) == Stat(f, path).err # Errno.ENOENT

\* Mkdirp: the error of os.MkdirAll is dropped
Mkdirp(f, path) == MkdirAll(f, Abs(path), Perm.m0777).fs

\* the error a panic of the library is modelled by
Panic == "panic"

\* a Touch that does not look at forceDir: a path with an extension would be
\* made a file whatever the flags (C19 fails under it)
TouchIgnoringForceDir(f, path, forceFile, forceDir) ==
  IF Exists(f, path) THEN [fs |-> f, panic |-> FALSE, abs |-> Abs(path)]
  ELSE IF forceFile \/ Len(Ext(Abs(path))) > 0
       THEN [fs |-> Create(Mkdirp(f, Dir(Abs(path))), Abs(path)).fs,
             panic |-> Create(Mkdirp(f, Dir(Abs(path))), Abs(path)).err # Nil,
             abs |-> Abs(path)]
  ELSE [fs |-> Mkdirp(f, Abs(path)), panic |-> FALSE, abs |-> Abs(path)]

\* Touch: the file system afterwards, whether it panicked, and the path it
\* returns; a path with an extension is made a file unless forceDir is set
Touch(f, path, forceFile, forceDir) ==
  LET created(abs, c) == [fs |-> c.fs, panic |-> c.err # Nil, abs |-> abs]
      touch(abs) ==
        IF Exists(f, path) THEN [fs |-> f, panic |-> FALSE, abs |-> abs]
        ELSE IF ~forceDir /\ (forceFile \/ Len(Ext(abs)) > 0)
             THEN created(abs, Create(Mkdirp(f, Dir(abs)), abs))
             ELSE [fs |-> Mkdirp(f, abs), panic |-> FALSE, abs |-> abs]
  IN touch(Abs(path))

\* IsFile: the path exists, the stat succeeds and it is not of a directory
IsFile(f, path) ==
  LET of(s) == s.err = Nil /\ s.info.kind # "dir"
  IN IF ~Exists(f, path) THEN FALSE ELSE of(Stat(f, path))

\* os.RemoveAll, the error dropped: the node and everything below it are
\* removed, as far as the permissions of the directories allow; a symbolic
\* link is removed, not followed
RemoveAll(f, p) ==
  LET RECURSIVE rm(_, _)
      RECURSIVE each(_, _, _)
      below(g, a) == {c \in DOMAIN g : c # a /\ Dir(c) = a}
      unlink(g, a) == IF Allowed(g[Dir(a)], "w") /\ below(g, a) = {} THEN Remove(g, a) ELSE g
      each(g, a, names) ==
        IF names = <<>> THEN unlink(g, a)
        ELSE each(rm(g, Join(a, Head(names))), a, Tail(names))
      emptied(g, a, rd) ==
        IF rd.err # Nil \/ ~Allowed(g[a], "w") \/ ~Allowed(g[a], "x") THEN unlink(g, a)
        ELSE each(g, a, rd.names)
      rm(g, a) == IF g[a].kind = "dir" THEN emptied(g, a, ReadDirNames(g, a)) ELSE unlink(g, a)
      at(a, e) == IF e # Nil \/ a = <<Sep>> THEN f ELSE rm(f, a)
      all(a) == at(a, LookupErr(f, a))
  IN all(Abs(p))

\* Clean of the library: the directory of the path when the path is a file;
\* what is there is removed, and the directory is made
fsutilClean(f, path) ==
  LET made(p, g) == Mkdirp(g, p)
      clean(p) == made(p, IF Exists(f, p) THEN RemoveAll(f, p) ELSE f)
      of(abs) == clean(IF IsFile(f, abs) THEN Dir(abs) ELSE abs)
  IN of(Abs(path))

\* WriteTextFile: Touch(path, true), then ioutil.WriteFile with the
\* permission passed or os.ModePerm; a panic of Touch ends the call
WriteTextFile(f, path, content, hasPerm, perm) ==
  LET wrote(w) == [fs |-> w.fs, err |-> w.err]
      touched(t) ==
        IF t.panic THEN [fs |-> t.fs, err |-> Panic]
        ELSE wrote(WriteFile(t.fs, t.abs, content, IF hasPerm THEN perm ELSE Perm.m0777))
  IN touched(Touch(f, path, TRUE, FALSE))

\* os.OpenFile of a path for reading (O_RDONLY) or for writing (O_WRONLY)
\* without O_CREATE: a directory cannot be opened for writing, whatever its
\* permissions
OpenFile(f, p, write) ==
  LET at(a, e) ==
        IF e # Nil THEN e
        ELSE IF write /\ f[a].kind = "dir" THEN Errno.EISDIR
        ELSE IF ~Allowed(f[a], IF write THEN "w" ELSE "r") THEN Errno.EACCES
        ELSE Nil
      open(a) == at(a, LookupErr(f, a))
  IN open(Real(f, p))

\* os.IsPermission
IsPermission(err) == err = Errno.EACCES

\* allowFileAction: a path that Exists takes for existing is allowed unless
\* opening it fails with a permission error
allowFileAction(f, path, write) ==
  IF ~Exists(f, Abs(path)) THEN FALSE ELSE ~IsPermission(OpenFile(f, Abs(path), write))

\* IsReadable
IsReadable(f, path) == allowFileAction(f, path, FALSE)

\* IsWritable
IsWritable(f, path) == allowFileAction(f, path, TRUE)

\* the path IsExecutable hands to os.Lstat
StatName == <<"f","i","l","e",".","t","x","t">>

\* IsExecutable: the mode examined is that of file.txt in the working
\* directory
IsExecutable(f, path) ==
  LET of(fileInfo) == fileInfo.err = Nil /\ "x" \in fileInfo.info.perm
  IN IF ~Exists(f, Abs(path)) THEN FALSE ELSE of(Lstat(f, StatName))

\* an IsSymlink that takes no path for a link: Move, Copy and Zip would treat
\* a link as a file (C9 fails under it)
NotSymlink(f, path) == FALSE

\* IsSymlink: the link can be read and its target is not empty
IsSymlink(f, path) ==
  LET read(r) == r.err = Nil /\ Len(r.to) > 0
  IN read(Readlink(f, path))

(***************************************************************************)
(* filepath.Walk and the callbacks of list, Move, Copy and Zip             *)
(*                                                                         *)
(* The state a walk threads through its callback: the file system, the     *)
(* response of list, the entries written to the archive of Zip, and a log  *)
(* of what the callback did at each node.                                  *)
(***************************************************************************)
Event(path, act, target, err) == [path |-> path, act |-> act, target |-> target, err |-> err]

Logged(st, ev) == [st EXCEPT !.log = Append(@, ev)]

WalkState(f) == [fs |-> f, out |-> <<>>, zip |-> <<>>, log |-> <<>>]

\* a callback that records the path it was handed before it looks at the
\* error of the walk: a root that cannot be read would be listed (C13 fails
\* under it)
WalkErrListed(st, path, err) ==
  [st |-> [Logged(st, Event(path, "walk", <<>>, err))
             EXCEPT !.out = Append(@, [path |-> path, info |-> DirNode(Perm.m0755)])],
   err |-> err]

\* the return of a callback that was handed an error by the walk
WalkErr(st, path, err) == [st |-> Logged(st, Event(path, "walk", <<>>, err)), err |-> err]

\* the test of Move and Copy with the flag inverted: a failed step would not
\* end the walk of a call that does not ignore errors (C7 fails under it)
AbortIfIgnored(err, ignore) == err # Nil /\ ignore

\* whether a failed step ends the walk of Move and Copy
Abort(err, ignore) == err # Nil /\ ~ignore

\* the path below dest that an entry of the walk of source maps to
Target(source, dest, path) == Join(dest, Replace1(path, source, <<>>))

\* a directory node of Move and Copy: Touch(target)
Touched(st, path, target, t) ==
  [st |-> [Logged(st, Event(path, "touch", target, IF t.panic THEN Panic ELSE Nil))
             EXCEPT !.fs = t.fs],
   err |-> IF t.panic THEN Panic ELSE Nil]

\* the callback of Move
MoveFn(source, dest, ignore, st, path, info, err) ==
  LET renamed(target, r) ==
        [st |-> [Logged(st, Event(path, "rename", target, r.err)) EXCEPT !.fs = r.fs],
         err |-> IF Abort(r.err, ignore) THEN r.err ELSE Nil]
      entry(target) ==
        IF info.kind = "dir" THEN Touched(st, path, target, Touch(st.fs, target, FALSE, FALSE))
        ELSE IF ~IsSymlink(st.fs, path) THEN renamed(target, Rename(st.fs, path, target))
        ELSE [st |-> Logged(st, Event(path, "skip", target, Nil)), err |-> Nil]
  IN IF err # Nil THEN WalkErr(st, path, err) ELSE entry(Target(source, dest, path))

\* the callback of Copy: a failed read that is ignored writes the empty input
CopyFn(source, dest, ignore, st, path, info, err) ==
  LET written(s1, target, w) ==
        [st |-> [Logged(s1, Event(path, "write", target, w.err)) EXCEPT !.fs = w.fs],
         err |-> IF Abort(w.err, ignore) THEN w.err ELSE Nil]
      readDone(target, input) ==
        IF input.err # Nil /\ Abort(input.err, ignore)
        THEN [st |-> Logged(st, Event(path, "read", target, input.err)), err |-> input.err]
        ELSE written(IF input.err # Nil THEN Logged(st, Event(path, "read", target, input.err))
                     ELSE st,
                     target, WriteFile(st.fs, target, input.data, Perm.m0644))
      entry(target) ==
        IF info.kind = "dir" THEN Touched(st, path, target, Touch(st.fs, target, FALSE, FALSE))
        ELSE IF ~IsSymlink(st.fs, path) THEN readDone(target, ReadFile(st.fs, path))
        ELSE [st |-> Logged(st, Event(path, "skip", target, Nil)), err |-> Nil]
  IN IF err # Nil THEN WalkErr(st, path, err) ELSE entry(Target(source, dest, path))

\* an entry of an archive: its name, content, permission bits, the directory
\* bit of its mode, and the step at which reading it fails ("" for none)
ZipEntry(name, data, perm, isdir, bad) ==
  [name |-> name, data |-> data, perm |-> perm, isdir |-> isdir, bad |-> bad]

\* the name Zip gives the entry of path: the source prefix and one leading
\* separator removed
LocalPath(src, path) ==
  LET trimmed(localpath) ==
        IF HasPrefix(localpath, <<"/">>) THEN Replace1(localpath, <<"/">>, <<>>)
        ELSE IF HasPrefix(localpath, <<"\\">>) THEN Replace1(localpath, <<"\\">>, <<>>)
        ELSE localpath
  IN trimmed(Replace1(path, src, <<>>))

\* addToZipArchive: the failAt-th write to the archive fails
addToZipArchive(failAt, st, path, filename, content) ==
  IF failAt = Len(st.zip) + 1
  THEN [st |-> Logged(st, Event(path, "archive", filename, Errno.EIO)), err |-> Errno.EIO]
  ELSE [st |-> [Logged(st, Event(path, "archive", filename, Nil))
                  EXCEPT !.zip = Append(@, ZipEntry(filename, content, Perm.m0666, FALSE, ""))],
        err |-> Nil]

\* the callback of Zip
ZipFn(src, failAt, st, path, info, err) ==
  LET read(input) ==
        IF input.err # Nil
        THEN [st |-> Logged(st, Event(path, "read", <<>>, input.err)), err |-> input.err]
        ELSE addToZipArchive(failAt, st, path, LocalPath(src, path), input.data)
  IN IF err # Nil THEN WalkErr(st, path, err)
     ELSE IF info.kind # "dir" /\ ~IsSymlink(st.fs, path) THEN read(ReadFile(st.fs, path))
     ELSE [st |-> Logged(st, Event(path, IF info.kind = "dir" THEN "dir" ELSE "skip",
                                   <<>>, Nil)),
           err |-> Nil]

\* a callback of the recursive list that leaves out the root of the walk: the
\* listing would hold the descendants alone (C14 fails under it)
ListFnBelowRoot(ignore, st, path, info, err) ==
  IF err # Nil THEN WalkErr(st, path, err)
  ELSE IF isIgnoredPath(path, ignore) # Nil
       THEN [st |-> Logged(st, Event(path, "ignored", <<>>, isIgnoredPath(path, ignore))),
             err |-> isIgnoredPath(path, ignore)]
  ELSE [st |-> [Logged(st, Event(path, "listed", <<>>, Nil))
                  EXCEPT !.out = IF st.log = <<>> THEN @
                                 ELSE Append(@, [path |-> path, info |-> info])],
        err |-> Nil]

\* the callback of the recursive list
ListFn(ignore, st, path, info, err) ==
  LET checked(ignored) ==
        IF ignored # Nil
        THEN [st |-> Logged(st, Event(path, "ignored", <<>>, ignored)), err |-> ignored]
        ELSE [st |-> [Logged(st, Event(path, "listed", <<>>, Nil))
                        EXCEPT !.out = Append(@, [path |-> path, info |-> info])],
              err |-> Nil]
  IN IF err # Nil THEN WalkErr(st, path, err) ELSE checked(isIgnoredPath(path, ignore))

\* filepath.Walk: walkFn on the node, then on its entries in name order; an
\* error of walkFn other than SkipDir ends the walk
Walk(walkFn(_, _, _, _), st0, root) ==
  LET RECURSIVE walk(_, _, _)
      RECURSIVE walkNames(_, _, _)
      \* after the entry filename: the rest of the names, unless the walk ends
      walked(r, isDir, path, names) ==
        IF r.err # Nil /\ (~isDir \/ r.err # Errno.SkipDir) THEN r
        ELSE walkNames(r.st, path, Tail(names))
      walkEntry(st, path, names, filename, li) ==
        walked(IF li.err # Nil THEN walkFn(st, filename, NoInfo, li.err)
               ELSE walk(st, filename, li.info),
               li.err = Nil /\ li.info.kind = "dir", path, names)
      walkNamed(st, path, names, filename) ==
        walkEntry(st, path, names, filename, Lstat(st.fs, filename))
      walkNames(st, path, names) ==
        IF names = <<>> THEN [st |-> st, err |-> Nil]
        ELSE walkNamed(st, path, names, Join(path, Head(names)))
      walkDir(r1, path, rd) ==
        IF rd.err # Nil \/ r1.err # Nil THEN r1 ELSE walkNames(r1.st, path, rd.names)
      walkRead(st, path, info, rd) ==
        walkDir(walkFn(st, path, info, rd.err), path, rd)
      walk(st, path, info) ==
        walkRead(st, path, info,
                 IF info.kind # "dir" THEN [err |-> Nil, names |-> <<>>]
                 ELSE ReadDirNames(st.fs, path))
      walkRoot(r) == IF r.err = Errno.SkipDir THEN [st |-> r.st, err |-> Nil] ELSE r
      walkStat(l0) ==
        walkRoot(IF l0.err # Nil THEN walkFn(st0, root, NoInfo, l0.err)
                 ELSE walk(st0, root, l0.info))
  IN walkStat(Lstat(st0.fs, root))

(***************************************************************************)
(* The operations: each gives the file system afterwards, the error        *)
(* returned, the paths returned (the listings) and the log                 *)
(***************************************************************************)
Result(f, err, out, log) == [fs |-> f, err |-> err, out |-> out, log |-> log]

\* the result of an operation that returns the error of its walk
Walked(r) == Result(r.st.fs, r.err, <<>>, r.st.log)

\* Move
Move(f, source, dest, ignore) ==
  Walked(Walk(LAMBDA st, path, info, err : MoveFn(source, dest, ignore, st, path, info, err),
              WalkState(f), source))

\* Copy
Copy(f, source, dest, ignore) ==
  Walked(Walk(LAMBDA st, path, info, err : CopyFn(source, dest, ignore, st, path, info, err),
              WalkState(f), source))

\* the archive path of Zip: the target, or the base name of the source with
\* its extension replaced
ZipDest(src, target, hasTarget) ==
  Abs(IF hasTarget THEN target
      ELSE Replace1(Base(src), Ext(src), <<>>) \o <<".", "z", "i", "p">>)

\* Zip: the archive is created, the source is walked, and the deferred Close
\* brings the entries to the file; the error of the walk is dropped
Zip(f, src, target, hasTarget, failAt) ==
  LET closed(g, a, entries) ==
        IF a \in DOMAIN g /\ g[a].kind = "file" THEN Put(g, a, ZipNode(entries, g[a].perm))
        ELSE g
      walked(dest, r) ==
        Result(closed(r.st.fs, Real(r.st.fs, dest), r.st.zip), Nil, <<>>, r.st.log)
      created(dest, c) ==
        IF c.err # Nil THEN Result(f, c.err, <<>>, <<>>)
        ELSE walked(dest,
                    Walk(LAMBDA st, path, info, err : ZipFn(src, failAt, st, path, info, err),
                         WalkState(c.fs), src))
      to(dest) == created(dest, Create(f, dest))
  IN to(ZipDest(src, target, hasTarget))

\* zip.OpenReader
OpenReader(f, src) ==
  LET at(a, e) ==
        IF e # Nil THEN [err |-> e, files |-> <<>>]
        ELSE IF f[a].kind = "dir" THEN [err |-> Errno.EISDIR, files |-> <<>>]
        ELSE IF ~Allowed(f[a], "r") THEN [err |-> Errno.EACCES, files |-> <<>>]
        ELSE IF f[a].fmt # "zip" THEN [err |-> Errno.ErrFormat, files |-> <<>>]
        ELSE [err |-> Nil, files |-> f[a].zip]
      open(a) == at(a, LookupErr(f, a))
  IN open(Real(f, src))

\* the errors of Unzip
ErrNotExist == "does not exist"
ErrIllegalPath == "illegal file path"

\* a ZipSlip check without the separator: a sibling whose name starts with
\* the name of the destination would pass (C1 fails under it)
ContainedNoSep(path, dest) == HasPrefix(path, Clean(dest))

\* the ZipSlip check of Unzip
Contained(path, dest) == HasPrefix(path, Clean(dest) \o <<Sep>>)

\* extractAndWriteFile of Unzip: the error of os.MkdirAll is dropped
extractAndWriteFile(st, dest, e) ==
  LET isDir == e.isdir \/ (e.name # <<>> /\ e.name[Len(e.name)] = Sep)
      madeDir(path, m) ==
        [st |-> [Logged(st, Event(e.name, "mkdir", path, m.err)) EXCEPT !.fs = m.fs],
         err |-> Nil]
      copyErr(w) == IF w.err # Nil THEN w.err ELSE IF e.bad = "copy" THEN Errno.EIO ELSE Nil
      wroteFile(path, w) ==
        [st |-> [Logged(st, Event(e.name, "write", path, copyErr(w))) EXCEPT !.fs = w.fs],
         err |-> copyErr(w)]
      to(path) ==
        IF e.bad = "open"
        THEN [st |-> Logged(st, Event(e.name, "open", <<>>, Errno.EIO)), err |-> Errno.EIO]
        ELSE IF ~Contained(path, dest)
             THEN [st |-> Logged(st, Event(e.name, "reject", path, ErrIllegalPath)),
                   err |-> ErrIllegalPath]
        ELSE IF isDir THEN madeDir(path, MkdirAll(st.fs, path, e.perm))
        ELSE wroteFile(path,
                       OpenWrite(MkdirAll(st.fs, Dir(path), e.perm).fs, path,
                                 IF e.bad = "copy" THEN "" ELSE e.data, e.perm, FALSE))
  IN to(Join(dest, e.name))

\* Unzip: the loop over the files of the archive ends at the first error
Unzip(f, source, destination) ==
  LET RECURSIVE extractAll(_, _, _)
      extracted(r, dest, rest) == IF r.err # Nil THEN r ELSE extractAll(r.st, dest, rest)
      extractAll(st, dest, files) ==
        IF files = <<>> THEN [st |-> st, err |-> Nil]
        ELSE extracted(extractAndWriteFile(st, dest, Head(files)), dest, Tail(files))
      opened(dest, rd) ==
        IF rd.err # Nil THEN Result(f, rd.err, <<>>, <<>>)
        ELSE Walked(extractAll(WalkState(MkdirAll(f, dest, Perm.m0755).fs), dest, rd.files))
      unzip(src, dest) ==
        IF ~Exists(f, src) THEN Result(f, ErrNotExist, <<>>, <<>>)
        ELSE opened(dest, OpenReader(f, src))
  IN unzip(Abs(source), Abs(destination))

\* a Glob whose expansion begins with the directory itself: the shallow
\* listing would return the listed directory (C26 fails under it)
GlobAllWithRoot(f, directory) ==
  LET names(ns) == <<directory>> \o [i \in 1..Len(ns) |-> Join(directory, ns[i])]
      stat(l) ==
        IF l.err # Nil \/ l.info.kind # "dir" THEN <<>>
        ELSE names(ReadDirNames(f, directory).names)
  IN stat(Stat(f, directory))

\* filepath.Glob of directory/*: the entries of the directory, sorted; none
\* when it cannot be read
GlobAll(f, directory) ==
  LET names(ns) == [i \in 1..Len(ns) |-> Join(directory, ns[i])]
      stat(l) ==
        IF l.err # Nil \/ l.info.kind # "dir" THEN <<>>
        ELSE names(ReadDirNames(f, directory).names)
  IN stat(Stat(f, directory))

\* list: the response and the error; the result of filepath.Walk is dropped,
\* and the shallow loop leaves out an entry that isIgnoredPath gives an error
\* for
list(f, dir, recursive, ignore) ==
  LET RECURSIVE shallow(_, _)
      shallow(paths, response) ==
        IF paths = <<>> THEN response
        ELSE shallow(Tail(paths),
                     IF isIgnoredPath(Head(paths), ignore) = Nil
                     THEN Append(response,
                                 [path |-> Head(paths), info |-> Stat(f, Head(paths)).info])
                     ELSE response)
      walked(r) == [response |-> r.st.out, err |-> Nil, log |-> r.st.log]
      listAbs(directory) ==
        IF recursive
        THEN walked(Walk(LAMBDA st, path, info, err : ListFn(ignore, st, path, info, err),
                         WalkState(f), directory))
        ELSE [response |-> shallow(GlobAll(f, directory), <<>>), err |-> Nil, log |-> <<>>]
  IN listAbs(Abs(dir))

\* List
List(f, directory, recursive, ignore) ==
  LET paths(response) == [i \in 1..Len(response) |-> response[i].path]
      listed(r) ==
        IF r.err # Nil THEN Result(f, r.err, <<>>, r.log)
        ELSE Result(f, Nil, paths(r.response), r.log)
  IN listed(list(f, directory, recursive, ignore))

\* the loop of ListDirectories (wantDir) and ListFiles over the response of
\* list: asking an item without file information panics
ListedOnly(f, r, wantDir) ==
  LET RECURSIVE select(_)
      selected(item, rest) ==
        IF rest.err # Nil THEN rest
        ELSE IF (item.info.kind = "dir") = wantDir
             THEN [out |-> <<item.path>> \o rest.out, err |-> Nil]
             ELSE rest
      select(response) ==
        IF response = <<>> THEN [out |-> <<>>, err |-> Nil]
        ELSE IF Head(response).info.kind = "none" THEN [out |-> <<>>, err |-> Panic]
        ELSE selected(Head(response), select(Tail(response)))
      of(s) == IF r.err # Nil THEN Result(f, r.err, <<>>, r.log) ELSE Result(f, s.err, s.out, r.log)
  IN of(select(r.response))

\* ListDirectories
ListDirectories(f, directory, recursive, ignore) ==
  ListedOnly(f, list(f, directory, recursive, ignore), TRUE)

\* a ListFiles whose loop keeps every item of the response (C15 fails under
\* it)
ListFilesUnfiltered(f, directory, recursive, ignore) == List(f, directory, recursive, ignore)

\* ListFiles
ListFiles(f, directory, recursive, ignore) ==
  ListedOnly(f, list(f, directory, recursive, ignore), FALSE)

(***************************************************************************)
(* The state machine: a file system, the privilege of the user, and the    *)
(* record of the last call with the file system it started from            *)
(***************************************************************************)
\* the number of library calls in one behaviour
MaxCalls == 2

\* the file systems Move, Copy and Zip start from, each with the root and
\* the working directory
SourceTrees ==
  LET base == (<<"/">> :> DirNode(Perm.m0755)) @@ (<<"/","w">> :> DirNode(Perm.m0755))
      \* a source tree with a nested directory and a link to a file
      nested ==
        base @@
        (<<"/","w","/","s">> :> DirNode(Perm.m0755)) @@
        (<<"/","w","/","s","/","a",".","t">> :> FileNode("A", Perm.m0644)) @@
        (<<"/","w","/","s","/","d">> :> DirNode(Perm.m0755)) @@
        (<<"/","w","/","s","/","d","/","b",".","t">> :> FileNode("B", Perm.m0644)) @@
        (<<"/","w","/","s","/","l">> :> LinkNode(<<"a",".","t">>))
      \* a directory whose name has a dot, a link to a directory, and a link
      \* to the source directory itself
      dotted ==
        base @@
        (<<"/","w","/","s">> :> DirNode(Perm.m0755)) @@
        (<<"/","w","/","s","/","c",".","d">> :> DirNode(Perm.m0755)) @@
        (<<"/","w","/","s","/","c",".","d","/","e">> :> FileNode("E", Perm.m0644)) @@
        (<<"/","w","/","s","/","k">> :> LinkNode(<<"c",".","d">>)) @@
        (<<"/","w","/","s","/","z",".","t">> :> FileNode("Z", Perm.m0644)) @@
        (<<"/","w","/","q">> :> LinkNode(<<"s">>))
      \* a file that cannot be read, and a destination in which the name of
      \* the second file is taken by a directory
      blocked ==
        base @@
        (<<"/","w","/","s">> :> DirNode(Perm.m0755)) @@
        (<<"/","w","/","s","/","a",".","t">> :> FileNode("A", Perm.m0644)) @@
        (<<"/","w","/","s","/","b",".","t">> :> FileNode("B", {"w"})) @@
        (<<"/","w","/","s","/","c",".","t">> :> FileNode("C", Perm.m0644)) @@
        (<<"/","w","/","o">> :> DirNode(Perm.m0755)) @@
        (<<"/","w","/","o","/","b",".","t">> :> DirNode(Perm.m0755)) @@
        (<<"/","w","/","q">> :> LinkNode(<<"s">>))
      \* a directory that cannot be read, between two files
      unreadable ==
        base @@
        (<<"/","w","/","s">> :> DirNode(Perm.m0755)) @@
        (<<"/","w","/","s","/","a",".","t">> :> FileNode("A", Perm.m0644)) @@
        (<<"/","w","/","s","/","n">> :> DirNode({"w", "x"})) @@
        (<<"/","w","/","s","/","n","/","x",".","t">> :> FileNode("X", Perm.m0644)) @@
        (<<"/","w","/","s","/","z",".","t">> :> FileNode("Z", Perm.m0644)) @@
        (<<"/","w","/","q">> :> LinkNode(<<"s">>))
      \* two files that cannot be read; the destination has a file by the
      \* name of the first and none by the name of the second
      masked ==
        base @@
        (<<"/","w","/","s">> :> DirNode(Perm.m0755)) @@
        (<<"/","w","/","s","/","a",".","t">> :> FileNode("A", Perm.m0644)) @@
        (<<"/","w","/","s","/","b",".","t">> :> FileNode("B", {"w"})) @@
        (<<"/","w","/","s","/","c",".","t">> :> FileNode("C", {"w"})) @@
        (<<"/","w","/","o">> :> DirNode(Perm.m0755)) @@
        (<<"/","w","/","o","/","b",".","t">> :> FileNode("O", Perm.m0644)) @@
        (<<"/","w","/","q">> :> LinkNode(<<"s">>))
  IN {nested, dotted, blocked, unreadable, masked}

\* the source directory, and a link to it
Sources == {<<"s">>, <<"q">>}

Dests == {<<"o">>}

NoSummary ==
  [op |-> "none", src |-> <<>>, dst |-> <<>>, hasDst |-> FALSE, err |-> Nil, clean |-> TRUE]

\* what the next call keeps of a call: its arguments, the error it returned
\* and whether every step of it succeeded
Summary(c) ==
  [op |-> c.op, src |-> c.src, dst |-> c.dst, hasDst |-> c.hasDst, err |-> c.err,
   clean |-> \A i \in 1..Len(c.log) : c.log[i].err = Nil]

\* the record of a call: its arguments, what it returned, its log, the file
\* system it started from and the summary of the call before it
Call(op, src, dst, hasDst, ignore, rec, pats, failAt, r, pre, prev) ==
  [op |-> op, src |-> src, dst |-> dst, hasDst |-> hasDst, ignore |-> ignore,
   rec |-> rec, pats |-> pats, failAt |-> failAt,
   err |-> r.err, out |-> r.out, log |-> r.log, pre |-> pre, prev |-> prev]

NoCall ==
  Call("none", <<>>, <<>>, FALSE, FALSE, FALSE, <<>>, 0, Result(<<>>, Nil, <<>>, <<>>),
       <<>>, NoSummary)

Init ==
  /\ fs \in SourceTrees
  /\ priv \in BOOLEAN
  /\ last = NoCall
  /\ calls = 0

\* a call that returned r: the file system it leaves and the record of it
Returned(op, src, dst, hasDst, ignore, rec, pats, failAt, prev, r) ==
  /\ fs' = r.fs
  /\ last' = Call(op, src, dst, hasDst, ignore, rec, pats, failAt, r, fs, prev)
  /\ calls' = calls + 1
  /\ UNCHANGED priv

MoveAct ==
  \E source \in Sources, dest \in Dests, ignore \in BOOLEAN :
    /\ calls < MaxCalls
    /\ Returned("Move", source, dest, TRUE, ignore, FALSE, <<>>, 0, Summary(last),
                Move(fs, source, dest, ignore))

CopyAct ==
  \E source \in Sources, dest \in Dests, ignore \in BOOLEAN :
    /\ calls < MaxCalls
    /\ Returned("Copy", source, dest, TRUE, ignore, FALSE, <<>>, 0, Summary(last),
                Copy(fs, source, dest, ignore))

\* Zip(src): the archive goes to the default path; the write to the archive
\* that fails is none, or the first
ZipAct ==
  \E src \in Sources, failAt \in {0, 1} :
    /\ calls < MaxCalls
    /\ Returned("Zip", src, <<>>, FALSE, FALSE, FALSE, <<>>, failAt, Summary(last),
                Zip(fs, src, <<>>, FALSE, failAt))

Next == MoveAct \/ CopyAct \/ ZipAct

Spec == Init /\ [][Next]_vars

(***************************************************************************)
(* Zip and Unzip: archives made by Zip from several spellings of the       *)
(* source path, and archives made elsewhere                                *)
(***************************************************************************)
\* a source tree, a file outside every destination, and four archives
TreeArchives ==
  LET \* an entry that climbs out of the destination between two plain entries
      climb ==
        <<ZipEntry(<<"a",".","t">>, "O", Perm.m0644, FALSE, ""),
          ZipEntry(<<".",".","/","e",".","t">>, "X", Perm.m0644, FALSE, ""),
          ZipEntry(<<"z",".","t">>, "Z", Perm.m0644, FALSE, "")>>
      \* an entry that lands in a sibling whose name starts with the name of
      \* the destination
      sibling == <<ZipEntry(<<".",".","/","d","x","/","e",".","t">>, "X", Perm.m0755, FALSE, "")>>
      \* a directory entry, a file below it, and an entry whose path is the
      \* destination itself
      dirs ==
        <<ZipEntry(<<"n","/">>, "", Perm.m0755, TRUE, ""),
          ZipEntry(<<"n","/","b",".","t">>, "B", Perm.m0644, FALSE, ""),
          ZipEntry(<<>>, "X", Perm.m0644, FALSE, "")>>
      \* a directory entry with the name the first entry of climb has, and a
      \* file after it
      taken ==
        <<ZipEntry(<<"a",".","t","/">>, "", Perm.m0755, TRUE, ""),
          ZipEntry(<<"y",".","t">>, "Y", Perm.m0644, FALSE, "")>>
  IN (<<"/">> :> DirNode(Perm.m0755)) @@ (<<"/","w">> :> DirNode(Perm.m0755)) @@
     (<<"/","w","/","s">> :> DirNode(Perm.m0755)) @@
     (<<"/","w","/","s","/","a",".","t">> :> FileNode("A", Perm.m0644)) @@
     (<<"/","w","/","s","/","d">> :> DirNode(Perm.m0755)) @@
     (<<"/","w","/","s","/","d","/","b",".","t">> :> FileNode("B", Perm.m0644)) @@
     (<<"/","w","/","s","/","l">> :> LinkNode(<<"a",".","t">>)) @@
     (<<"/","w","/","e",".","t">> :> FileNode("K", Perm.m0644)) @@
     (<<"/","w","/","g",".","z">> :> ZipNode(climb, Perm.m0644)) @@
     (<<"/","w","/","h",".","z">> :> ZipNode(sibling, Perm.m0644)) @@
     (<<"/","w","/","k",".","z">> :> ZipNode(dirs, Perm.m0644)) @@
     (<<"/","w","/","j",".","z">> :> ZipNode(taken, Perm.m0644))

\* the spellings of the source directory
ZipSources == {<<"s">>, <<".","/","s">>, <<"s","/">>, <<"/","w","/","s">>}

\* the archive Zip writes, and the archives made elsewhere
Archives ==
  {<<"m",".","z">>, <<"g",".","z">>, <<"h",".","z">>, <<"k",".","z">>, <<"j",".","z">>}

InitArchive ==
  /\ fs = TreeArchives
  /\ priv \in BOOLEAN
  /\ last = NoCall
  /\ calls = 0

\* Zip(src, target)
ZipToAct ==
  \E src \in ZipSources :
    /\ calls < MaxCalls
    /\ Returned("Zip", src, <<"m",".","z">>, TRUE, FALSE, FALSE, <<>>, 0, Summary(last),
                Zip(fs, src, <<"m",".","z">>, TRUE, 0))

\* Unzip into a destination that does not exist, below the working directory
\* or below a directory that does not exist either
UnzipAct ==
  \E src \in Archives, dest \in {<<"d">>, <<"x","/","y">>} :
    /\ calls < MaxCalls
    /\ Returned("Unzip", src, dest, TRUE, FALSE, FALSE, <<>>, 0, Summary(last),
                Unzip(fs, src, dest))

NextArchive == ZipToAct \/ UnzipAct

SpecArchive == InitArchive /\ [][NextArchive]_vars

(***************************************************************************)
(* The listings                                                            *)
(***************************************************************************)
ListTrees ==
  LET \* root/a/b/f.t alone
      chain ==
        (<<"/">> :> DirNode(Perm.m0755)) @@ (<<"/","w">> :> DirNode(Perm.m0755)) @@
        (<<"/","w","/","r">> :> DirNode(Perm.m0755)) @@
        (<<"/","w","/","r","/","a">> :> DirNode(Perm.m0755)) @@
        (<<"/","w","/","r","/","a","/","b">> :> DirNode(Perm.m0755)) @@
        (<<"/","w","/","r","/","a","/","b","/","f",".","t">> :> FileNode("F", Perm.m0644))
      \* the same file name one level below root as well, and a file of root
      \* that the walk reaches last
      deep ==
        chain @@
        (<<"/","w","/","r","/","c">> :> DirNode(Perm.m0755)) @@
        (<<"/","w","/","r","/","c","/","f",".","t">> :> FileNode("G", Perm.m0644)) @@
        (<<"/","w","/","r","/","z",".","t">> :> FileNode("Z", Perm.m0644))
      \* root with nothing in it
      bare ==
        (<<"/">> :> DirNode(Perm.m0755)) @@ (<<"/","w">> :> DirNode(Perm.m0755)) @@
        (<<"/","w","/","r">> :> DirNode(Perm.m0755))
  IN {deep, chain, bare}

\* the directory, and one that does not exist
ListDirs == {<<"r">>, <<"x">>}

\* the ignore patterns of a call: none, well-formed ones, malformed ones
IgnoreLists ==
  {<<>>,
   <<<<"/","w","/","r","/","*","*","/","f",".","t">>>>,
   <<<<"/","w","/","r","/","a">>>>,
   <<<<"/","w","/","r","/","c">>, <<"/","w","/","r","/","*","/","b">>>>,
   <<<<"[">>>>,
   <<<<"/","w","/","r","/","a">>, <<"/","w","/","r","/","[","a","-">>>>}

InitList ==
  /\ fs \in ListTrees
  /\ priv \in BOOLEAN
  /\ last = NoCall
  /\ calls = 0

ListAct ==
  \E directory \in ListDirs, recursive \in BOOLEAN, ignore \in IgnoreLists :
    /\ calls < MaxCalls
    /\ Returned("List", directory, <<>>, FALSE, FALSE, recursive, ignore, 0, NoSummary,
                List(fs, directory, recursive, ignore))

ListDirectoriesAct ==
  \E directory \in ListDirs, recursive \in BOOLEAN, ignore \in IgnoreLists :
    /\ calls < MaxCalls
    /\ Returned("ListDirectories", directory, <<>>, FALSE, FALSE, recursive, ignore, 0, NoSummary,
                ListDirectories(fs, directory, recursive, ignore))

ListFilesAct ==
  \E directory \in ListDirs, recursive \in BOOLEAN, ignore \in IgnoreLists :
    /\ calls < MaxCalls
    /\ Returned("ListFiles", directory, <<>>, FALSE, FALSE, recursive, ignore, 0, NoSummary,
                ListFiles(fs, directory, recursive, ignore))

NextList == ListAct \/ ListDirectoriesAct \/ ListFilesAct

SpecList == InitList /\ [][NextList]_vars

\* a directory with a link whose target is not there, between a directory
\* and a file
DanglingTree ==
  (<<"/">> :> DirNode(Perm.m0755)) @@ (<<"/","w">> :> DirNode(Perm.m0755)) @@
  (<<"/","w","/","r">> :> DirNode(Perm.m0755)) @@
  (<<"/","w","/","r","/","a">> :> DirNode(Perm.m0755)) @@
  (<<"/","w","/","r","/","k">> :> LinkNode(<<"g","o","n","e">>)) @@
  (<<"/","w","/","r","/","z",".","t">> :> FileNode("Z", Perm.m0644))

InitDangling ==
  /\ fs = DanglingTree
  /\ priv \in BOOLEAN
  /\ last = NoCall
  /\ calls = 0

SpecDangling == InitDangling /\ [][NextList]_vars

(***************************************************************************)
(* Move and Copy from the spellings of the source path                     *)
(***************************************************************************)
\* Move(source, dest) and Move(source, dest, ignoreErrors)
MoveFromAct ==
  \E source \in ZipSources, dest \in Dests, ignore \in BOOLEAN :
    /\ calls < MaxCalls
    /\ Returned("Move", source, dest, TRUE, ignore, FALSE, <<>>, 0, Summary(last),
                Move(fs, source, dest, ignore))

\* Copy(source, dest) and Copy(source, dest, ignoreErrors)
CopyFromAct ==
  \E source \in ZipSources, dest \in Dests, ignore \in BOOLEAN :
    /\ calls < MaxCalls
    /\ Returned("Copy", source, dest, TRUE, ignore, FALSE, <<>>, 0, Summary(last),
                Copy(fs, source, dest, ignore))

NextSpelled == MoveFromAct \/ CopyFromAct

SpecSpelled == InitArchive /\ [][NextSpelled]_vars

(***************************************************************************)
(* Exists, Touch, Clean, WriteTextFile, and Zip without a destination      *)
(***************************************************************************)
\* a directory with a file and a directory in it, an empty directory, a
\* directory that cannot be searched, and a file whose extension also occurs
\* earlier in its name
FileTree ==
  (<<"/">> :> DirNode(Perm.m0755)) @@ (<<"/","w">> :> DirNode(Perm.m0755)) @@
  (<<"/","w","/","p">> :> DirNode(Perm.m0755)) @@
  (<<"/","w","/","p","/","f",".","t">> :> FileNode("F", Perm.m0644)) @@
  (<<"/","w","/","p","/","g">> :> DirNode(Perm.m0755)) @@
  (<<"/","w","/","p","/","g","/","h",".","t">> :> FileNode("H", Perm.m0644)) @@
  (<<"/","w","/","e">> :> DirNode(Perm.m0755)) @@
  (<<"/","w","/","u">> :> DirNode({"r", "w"})) @@
  (<<"/","w","/","u","/","v">> :> FileNode("V", Perm.m0644)) @@
  (<<"/","w","/","a",".","t","b",".","t">> :> FileNode("T", Perm.m0644))

InitFiles ==
  /\ fs = FileTree
  /\ priv \in BOOLEAN
  /\ last = NoCall
  /\ calls = 0

\* the paths of Exists: a directory, a file, a path below a file, a file in
\* the directory that cannot be searched, and paths that are not there
ExistsPaths ==
  {<<"p">>, <<"p","/","f",".","t">>, <<"p","/","f",".","t","/","c">>, <<"u","/","v">>,
   <<"x">>, <<"n","/","y",".","t">>}

\* Exists(path): the record keeps the boolean returned as the one element of
\* out
ExistsAct ==
  \E path \in ExistsPaths :
    /\ calls < MaxCalls
    /\ Returned("Exists", path, <<>>, FALSE, FALSE, FALSE, <<>>, 0, Summary(last),
                Result(fs, Nil, <<Exists(fs, path)>>, <<>>))

\* the paths of Touch: a name without an extension, a file name below
\* directories that are not there, a name with an extension, a file that
\* exists
TouchPaths ==
  {<<"x">>, <<"n","/","y",".","t">>, <<".","/","c",".","d">>, <<"p","/","f",".","t">>}

\* Touch(path), Touch(path, forceFile) and Touch(path, forceFile, forceDir):
\* the record keeps forceFile as ignore and forceDir as rec, and the path
\* returned as the one element of out; a Touch that panics returns nothing
TouchAct ==
  \E path \in TouchPaths, forceFile \in BOOLEAN, forceDir \in BOOLEAN :
    LET t == Touch(fs, path, forceFile, forceDir)
    IN /\ calls < MaxCalls
       /\ Returned("Touch", path, <<>>, FALSE, forceFile, forceDir, <<>>, 0, Summary(last),
                   Result(t.fs, IF t.panic THEN Panic ELSE Nil,
                          IF t.panic THEN <<>> ELSE <<t.abs>>, <<>>))

\* the paths of Clean: a directory with entries, an empty one, a path that
\* is not there, a file
CleanPaths == {<<"p">>, <<"e">>, <<"x">>, <<"p","/","f",".","t">>}

\* Clean(path)
CleanAct ==
  \E path \in CleanPaths :
    /\ calls < MaxCalls
    /\ Returned("Clean", path, <<>>, FALSE, FALSE, FALSE, <<>>, 0, Summary(last),
                Result(fsutilClean(fs, path), Nil, <<>>, <<>>))

\* the text WriteTextFile is given, and the permission of a call that passes
\* one: 0400
Text == "text"
ReadOnly == {"r"}

\* WriteTextFile(path, Text) and WriteTextFile(path, Text, os.FileMode(0400))
\* of a path that is not there, below a directory that is not there, and of
\* a file that exists: the record keeps whether a permission was passed as
\* hasDst
WriteTextFileAct ==
  \E path \in {<<"k">>, <<"n","/","y",".","t">>, <<"p","/","f",".","t">>}, hasPerm \in BOOLEAN :
    LET w == WriteTextFile(fs, path, Text, hasPerm, ReadOnly)
    IN /\ calls < MaxCalls
       /\ Returned("WriteTextFile", path, <<>>, hasPerm, FALSE, FALSE, <<>>, 0, Summary(last),
                   Result(w.fs, w.err, <<>>, <<>>))

\* Zip(src) of a directory, of a file, and of the file whose extension occurs
\* twice in its name
ZipDefaultAct ==
  \E src \in {<<"p">>, <<"p","/","f",".","t">>, <<"a",".","t","b",".","t">>} :
    /\ calls < MaxCalls
    /\ Returned("Zip", src, <<>>, FALSE, FALSE, FALSE, <<>>, 0, Summary(last),
                Zip(fs, src, <<>>, FALSE, 0))

NextFiles == ExistsAct \/ TouchAct \/ CleanAct \/ WriteTextFileAct \/ ZipDefaultAct

SpecFiles == InitFiles /\ [][NextFiles]_vars

(***************************************************************************)
(* IsReadable, IsWritable, IsExecutable                                    *)
(***************************************************************************)
\* a directory with a plain file and an executable file, a directory and a
\* file the user may not write or read, a directory that cannot be searched;
\* with and without an executable file.txt in the working directory
PermTrees ==
  LET plain ==
        (<<"/">> :> DirNode(Perm.m0755)) @@ (<<"/","w">> :> DirNode(Perm.m0755)) @@
        (<<"/","w","/","p">> :> DirNode(Perm.m0755)) @@
        (<<"/","w","/","p","/","f",".","t">> :> FileNode("F", Perm.m0644)) @@
        (<<"/","w","/","p","/","r","u","n">> :> FileNode("R", Perm.m0755)) @@
        (<<"/","w","/","r","o">> :> DirNode({"r", "x"})) @@
        (<<"/","w","/","w","o",".","t">> :> FileNode("W", {"w"})) @@
        (<<"/","w","/","u">> :> DirNode({"r", "w"})) @@
        (<<"/","w","/","u","/","v">> :> FileNode("V", Perm.m0644))
  IN {plain, plain @@ (<<"/","w">> \o <<Sep>> \o StatName :> FileNode("X", Perm.m0755))}

InitPerms ==
  /\ fs \in PermTrees
  /\ priv \in BOOLEAN
  /\ last = NoCall
  /\ calls = 0

\* the paths asked about: the nodes of the tree, a path below a file, and a
\* path that is not there
PermPaths ==
  {<<"p">>, <<"p","/","f",".","t">>, <<"p","/","r","u","n">>, <<"p","/","f",".","t","/","c">>,
   <<"r","o">>, <<"w","o",".","t">>, <<"u","/","v">>, <<"x">>}

\* IsReadable(path): the record keeps the boolean returned as the one
\* element of out
IsReadableAct ==
  \E path \in PermPaths :
    /\ calls < MaxCalls
    /\ Returned("IsReadable", path, <<>>, FALSE, FALSE, FALSE, <<>>, 0, Summary(last),
                Result(fs, Nil, <<IsReadable(fs, path)>>, <<>>))

\* IsWritable(path)
IsWritableAct ==
  \E path \in PermPaths :
    /\ calls < MaxCalls
    /\ Returned("IsWritable", path, <<>>, FALSE, FALSE, FALSE, <<>>, 0, Summary(last),
                Result(fs, Nil, <<IsWritable(fs, path)>>, <<>>))

\* IsExecutable(path)
IsExecutableAct ==
  \E path \in PermPaths :
    /\ calls < MaxCalls
    /\ Returned("IsExecutable", path, <<>>, FALSE, FALSE, FALSE, <<>>, 0, Summary(last),
                Result(fs, Nil, <<IsExecutable(fs, path)>>, <<>>))

NextPerms == IsReadableAct \/ IsWritableAct \/ IsExecutableAct

SpecPerms == InitPerms /\ [][NextPerms]_vars

(***************************************************************************)
(* The handles a call opens and closes: files, the reader of an archive    *)
(* and its entries, the writer of an archive.  A deferred Close runs when  *)
(* the function that deferred it returns, on every path.                   *)
(***************************************************************************)
Opened(h) == Event(h, "open", <<>>, Nil)

Closed(h) == Event(h, "close", <<>>, Nil)

\* Touch: the file os.Create gives is closed; a failed os.Create gives none
TouchHandles(f, path, forceFile, forceDir) ==
  LET created(abs, c) == IF c.err # Nil THEN <<>> ELSE <<Opened(abs), Closed(abs)>>
      touch(abs) ==
        IF Exists(f, path) \/ forceDir \/ ~(forceFile \/ Len(Ext(abs)) > 0) THEN <<>>
        ELSE created(abs, Create(Mkdirp(f, Dir(abs)), abs))
  IN touch(Abs(path))

\* allowFileAction: file.Close() after the open, on a nil file when the open
\* failed
allowFileActionHandles(f, path, write) ==
  IF ~Exists(f, Abs(path)) \/ OpenFile(f, Abs(path), write) # Nil THEN <<>>
  ELSE <<Opened(Abs(path)), Closed(Abs(path))>>

\* an extractAndWriteFile that closes the reader of the entry at its end
\* instead of deferring the Close: a return with an error would leave it
\* open (C23 fails under it)
extractHandlesNoDefer(ev) ==
  IF ev.act = "open" THEN <<>>
  ELSE IF ev.err # Nil THEN <<Opened(ev.path)>>
  ELSE IF ev.act = "write"
       THEN <<Opened(ev.path), Opened(ev.target), Closed(ev.target), Closed(ev.path)>>
  ELSE <<Opened(ev.path), Closed(ev.path)>>

\* extractAndWriteFile, for the step ev it took on an entry: the reader of
\* the entry, unless opening the entry failed, and the file written, unless
\* it was not opened; both Closes are deferred
extractHandles(ev) ==
  IF ev.act = "open" THEN <<>>
  ELSE IF ev.act = "write" /\ ev.err \in {Nil, Errno.EIO}
       THEN <<Opened(ev.path), Opened(ev.target), Closed(ev.target), Closed(ev.path)>>
  ELSE <<Opened(ev.path), Closed(ev.path)>>

\* Unzip: the Close of the reader of the archive is deferred
UnzipHandles(f, source, destination) ==
  LET RECURSIVE all(_)
      all(log) == IF log = <<>> THEN <<>> ELSE extractHandles(Head(log)) \o all(Tail(log))
      opened(src, rd, r) ==
        IF rd.err # Nil THEN <<>> ELSE <<Opened(src)>> \o all(r.log) \o <<Closed(src)>>
  IN IF ~Exists(f, Abs(source)) THEN <<>>
     ELSE opened(Abs(source), OpenReader(f, Abs(source)), Unzip(f, source, destination))

\* Zip: the Closes of the file and of the writer are deferred, the writer
\* closed first
ZipHandles(f, src, target, hasTarget, failAt) ==
  LET created(dest, c) ==
        IF c.err # Nil THEN <<>>
        ELSE <<Opened(dest), Opened(dest \o <<":">>), Closed(dest \o <<":">>), Closed(dest)>>
      to(dest) == created(dest, Create(f, dest))
  IN to(ZipDest(src, target, hasTarget))

\* a call with the handle events of the call as its log
Traced(r, handles) == Result(r.fs, r.err, r.out, handles)

TouchTracedAct ==
  \E path \in {<<"n","/","y",".","t">>, <<"x">>, <<"s","/","a",".","t">>}, forceFile \in BOOLEAN :
    LET t == Touch(fs, path, forceFile, FALSE)
    IN /\ calls < MaxCalls
       /\ Returned("Touch", path, <<>>, FALSE, forceFile, FALSE, <<>>, 0, Summary(last),
                   Traced(Result(t.fs, IF t.panic THEN Panic ELSE Nil, <<>>, <<>>),
                          TouchHandles(fs, path, forceFile, FALSE)))

\* IsReadable(path) and IsWritable(path): the record of the call keeps
\* whether it was IsWritable as ignore
AllowTracedAct ==
  \E path \in {<<"s","/","a",".","t">>, <<"s">>, <<"x">>}, write \in BOOLEAN :
    /\ calls < MaxCalls
    /\ Returned("allowFileAction", path, <<>>, FALSE, write, FALSE, <<>>, 0, Summary(last),
                Traced(Result(fs, Nil, <<allowFileAction(fs, path, write)>>, <<>>),
                       allowFileActionHandles(fs, path, write)))

UnzipTracedAct ==
  \E src \in Archives, dest \in {<<"d">>} :
    /\ calls < MaxCalls
    /\ Returned("Unzip", src, dest, TRUE, FALSE, FALSE, <<>>, 0, Summary(last),
                Traced(Unzip(fs, src, dest), UnzipHandles(fs, src, dest)))

\* Zip(src, target) to an archive, and to a path that is a directory
ZipTracedAct ==
  \E src \in {<<"s">>}, target \in {<<"m",".","z">>, <<"s","/","d">>}, failAt \in {0, 1} :
    /\ calls < MaxCalls
    /\ Returned("Zip", src, target, TRUE, FALSE, FALSE, <<>>, failAt, Summary(last),
                Traced(Zip(fs, src, target, TRUE, failAt),
                       ZipHandles(fs, src, target, TRUE, failAt)))

NextHandles == TouchTracedAct \/ AllowTracedAct \/ UnzipTracedAct \/ ZipTracedAct

SpecHandles == InitArchive /\ [][NextHandles]_vars

(***************************************************************************)
(* The claims                                                              *)
(***************************************************************************)
\* absolute clean path p is d or lies below it, element by element
Under(p, d) ==
  /\ Len(Segments(d)) <= Len(Segments(p))
  /\ SubSeq(Segments(p), 1, Len(Segments(d))) = Segments(d)

\* the paths whose node is not the same in file systems f and g
Changed(f, g) ==
  {p \in DOMAIN f \cup DOMAIN g : p \notin DOMAIN f \/ p \notin DOMAIN g \/ f[p] # g[p]}

\* the regular files below directory d, as pairs of the path relative to d
\* and the content
FilesBelow(f, d) ==
  {<<SubSeq(Segments(p), Len(Segments(d)) + 1, Len(Segments(p))), f[p].data>> :
     p \in {q \in DOMAIN f : q # d /\ Under(q, d) /\ f[q].kind = "file"}}

ListOps == {"List", "ListDirectories", "ListFiles"}

\* the steps of Move and Copy on one entry that can fail
EntrySteps == {"rename", "read", "write"}

\* C1: Unzip creates or writes nothing outside the destination: every path it
\* changes is the destination, a path below it, or a missing directory above
\* the destination that making the destination creates; and an entry whose
\* joined path is not below the destination is rejected with the illegal
\* file path error, which Unzip returns, with nothing done for that entry or
\* any entry after it.
C1_UnzipStaysInside ==
  last.op = "Unzip" =>
    /\ \A p \in Changed(last.pre, fs) :
         \/ Under(p, Abs(last.dst))
         \/ (p \notin DOMAIN last.pre /\ fs[p].kind = "dir" /\ Under(Abs(last.dst), p))
    /\ \A i \in 1..Len(last.log) :
         (\/ ~Under(Join(Abs(last.dst), last.log[i].path), Abs(last.dst))
          \/ Join(Abs(last.dst), last.log[i].path) = Abs(last.dst)) =>
           /\ last.log[i].act = "reject"
           /\ last.log[i].err = ErrIllegalPath
           /\ last.err = ErrIllegalPath
           /\ i = Len(last.log)

\* an Unzip that wrote a first entry and then rejected an entry whose path is
\* an existing file outside the destination
C1_Witness ==
  /\ last.op = "Unzip"
  /\ last.err = ErrIllegalPath
  /\ Len(last.log) > 1
  /\ last.log[1].act = "write"
  /\ last.log[1].err = Nil
  /\ last.log[Len(last.log)].act = "reject"
  /\ last.log[Len(last.log)].target \in DOMAIN last.pre
  /\ ~Under(last.log[Len(last.log)].target, Abs(last.dst))

\* C2: in a recursive listing with well-formed ignore patterns, every path
\* of the listed directory that no pattern excludes (neither the path nor a
\* directory above it matches one) is in the result exactly once; for
\* ListDirectories the directories, for ListFiles the others.
C2_IgnoredNodeOnlyPrunes ==
  (/\ last.op \in ListOps
   /\ last.rec
   /\ \A i \in 1..Len(last.pats) : Match(last.pats[i], <<>>).err = Nil) =>
    \A p \in DOMAIN last.pre :
      (/\ Under(p, Abs(last.src))
       /\ \A q \in DOMAIN last.pre :
            (Under(p, q) /\ Under(q, Abs(last.src))) =>
              \A i \in 1..Len(last.pats) : ~Match(last.pats[i], q).matched
       /\ (last.op = "List" \/ (last.pre[p].kind = "dir") = (last.op = "ListDirectories"))) =>
        Cardinality({i \in 1..Len(last.out) : last.out[i] = p}) = 1

\* C3: Unzip of the archive that a successful Zip of a directory made, into
\* a destination with nothing in it, succeeds and leaves below the
\* destination exactly the regular files of the source directory, by
\* relative path and content.
C3_ZipUnzipRoundTrip ==
  (/\ last.op = "Unzip"
   /\ last.prev.op = "Zip"
   /\ last.prev.err = Nil
   /\ Abs(last.src) = ZipDest(last.prev.src, last.prev.dst, last.prev.hasDst)
   /\ \A p \in DOMAIN last.pre : ~Under(p, Abs(last.dst))) =>
    /\ last.err = Nil
    /\ FilesBelow(fs, Abs(last.dst)) = FilesBelow(last.pre, Abs(last.prev.src))

\* C4: a Zip in which reading a file or writing an entry failed returns an
\* error, and the archive file is on disk.
C4_ZipReturnsFailure ==
  (/\ last.op = "Zip"
   /\ \E i \in 1..Len(last.log) :
        last.log[i].act \in {"read", "archive"} /\ last.log[i].err # Nil) =>
    /\ last.err # Nil
    /\ ZipDest(last.src, last.dst, last.hasDst) \in DOMAIN fs

\* C5: List, ListFiles and ListDirectories, recursive or shallow, return an
\* error when one of the ignore patterns is malformed.
C5_MalformedPatternFails ==
  (/\ last.op \in ListOps
   /\ \E i \in 1..Len(last.pats) : Match(last.pats[i], <<>>).err # Nil) =>
    last.err # Nil

\* C6: the recursive listing of root, which holds root/a/b/f.t, with the
\* ignore pattern root/**/f.t returns root, root/a and root/a/b and does not
\* return root/a/b/f.t.
C6_DoubleStarAnyDepth ==
  (/\ last.op = "List"
   /\ last.rec
   /\ Abs(last.src) = <<"/","w","/","r">>
   /\ last.pats = <<<<"/","w","/","r","/","*","*","/","f",".","t">>>>
   /\ <<"/","w","/","r","/","a","/","b","/","f",".","t">> \in DOMAIN last.pre) =>
    /\ \A p \in {<<"/","w","/","r">>, <<"/","w","/","r","/","a">>, <<"/","w","/","r","/","a","/","b">>} : \E i \in 1..Len(last.out) : last.out[i] = p
    /\ \A i \in 1..Len(last.out) : last.out[i] # <<"/","w","/","r","/","a","/","b","/","f",".","t">>

\* C7: in a Move or Copy that does not ignore errors, a rename, read or
\* write that fails is the last step of the walk and its error is returned;
\* the entries before it stay moved (the source is gone, the target holds
\* its node) or copied (the target holds its content, the source is as it
\* was); the entries the walk did not reach are as they were, and nothing
\* but the paths of the steps taken has changed; and the source of a failed
\* rename is in place as it was.
C7_FailFastNoRollback ==
  (last.op \in {"Move", "Copy"} /\ ~last.ignore) =>
    \A i \in 1..Len(last.log) :
      (last.log[i].act \in EntrySteps /\ last.log[i].err # Nil) =>
        /\ i = Len(last.log)
        /\ last.err = last.log[i].err
        /\ \A j \in 1..(i - 1) :
             /\ last.log[j].err = Nil
             /\ last.log[j].act = "rename" =>
                  /\ Abs(last.log[j].path) \notin DOMAIN fs
                  /\ Abs(last.log[j].target) \in DOMAIN fs
                  /\ fs[Abs(last.log[j].target)] = last.pre[Abs(last.log[j].path)]
             /\ last.log[j].act = "write" =>
                  /\ Abs(last.log[j].target) \in DOMAIN fs
                  /\ fs[Abs(last.log[j].target)].kind = "file"
                  /\ fs[Abs(last.log[j].target)].data = last.pre[Abs(last.log[j].path)].data
                  /\ fs[Abs(last.log[j].path)] = last.pre[Abs(last.log[j].path)]
        /\ \A p \in DOMAIN last.pre :
             (Under(p, Abs(last.src)) /\ \A j \in 1..i : Abs(last.log[j].path) # p) =>
               (p \in DOMAIN fs /\ fs[p] = last.pre[p])
        /\ \A p \in Changed(last.pre, fs) :
             \E j \in 1..(i - 1) : p \in {Abs(last.log[j].path), Abs(last.log[j].target)}
        /\ last.log[i].act = "rename" =>
             /\ Abs(last.log[i].path) \in DOMAIN fs
             /\ fs[Abs(last.log[i].path)] = last.pre[Abs(last.log[i].path)]

\* a Move that does not ignore errors, moved one file, failed at the rename
\* of the next and never reached a third
C7_Witness ==
  /\ last.op = "Move"
  /\ ~last.ignore
  /\ last.err # Nil
  /\ last.log[Len(last.log)].act = "rename"
  /\ last.log[Len(last.log)].err = last.err
  /\ \E j \in 1..(Len(last.log) - 1) : last.log[j].act = "rename" /\ last.log[j].err = Nil
  /\ \E p \in DOMAIN last.pre :
       /\ Under(p, Abs(last.src))
       /\ last.pre[p].kind = "file"
       /\ \A j \in 1..Len(last.log) : Abs(last.log[j].path) # p

\* C8: a Move or Copy of an existing source that ignores errors returns no
\* error, whatever failed on an entry or in the walk.
C8_IgnoreErrorsReturnsNil ==
  (/\ last.op \in {"Move", "Copy"}
   /\ last.ignore
   /\ Abs(last.src) \in DOMAIN last.pre) =>
    last.err = Nil

\* C9: for every symbolic link of the source tree of a Move, Copy or Zip,
\* the source root included: the link is in place as it was; the only step
\* logged for it is a skip without error, so it is the cause of no error;
\* the walk takes no step below it; the path it maps to in the destination
\* is as it was; and what it points to, when that lies outside the source
\* tree, is as it was.
C9_SymlinksSkipped ==
  last.op \in {"Move", "Copy", "Zip"} =>
    \A p \in DOMAIN last.pre :
      (last.pre[p].kind = "link" /\ Under(p, Abs(last.src))) =>
        /\ p \in DOMAIN fs
        /\ fs[p] = last.pre[p]
        /\ \A i \in 1..Len(last.log) :
             /\ Abs(last.log[i].path) = p =>
                  /\ last.log[i].act = "skip"
                  /\ last.log[i].err = Nil
                  /\ last.op # "Zip" => Abs(last.log[i].target) \notin Changed(last.pre, fs)
             /\ Under(Abs(last.log[i].path), p) => Abs(last.log[i].path) = p
        /\ \A q \in DOMAIN last.pre :
             (Under(q, Real(last.pre, p)) /\ ~Under(q, Abs(last.src))) =>
               (q \in DOMAIN fs /\ fs[q] = last.pre[q])

\* a Copy that skipped a link to a directory
C9_Witness ==
  /\ last.op = "Copy"
  /\ \E i \in 1..Len(last.log) :
       /\ last.log[i].act = "skip"
       /\ last.pre[Abs(last.log[i].path)].kind = "link"
       /\ Real(last.pre, last.log[i].path) \in DOMAIN last.pre
       /\ last.pre[Real(last.pre, last.log[i].path)].kind = "dir"

\* C10: the path a directory of the source tree of a Move or Copy maps to is
\* a directory once the directory has been processed.
C10_DirectoryMappedToDirectory ==
  last.op \in {"Move", "Copy"} =>
    \A i \in 1..Len(last.log) :
      (last.log[i].act = "touch" /\ last.log[i].err = Nil) =>
        /\ Abs(last.log[i].target) \in DOMAIN fs
        /\ fs[Abs(last.log[i].target)].kind = "dir"

\* the path of absolute clean path p relative to the directory d above it
Relative(p, d) == JoinSegs(SubSeq(Segments(p), Len(Segments(d)) + 1, Len(Segments(p))))

\* the steps of Move and Copy that are handed the target of an entry
TargetSteps == {"touch", "rename", "read", "write", "skip"}

\* C11: every entry a Move or Copy visits below the source root maps to the
\* destination root joined with the path of the entry relative to the source
\* root, whichever way the source root is spelled.
C11_TargetIsDestPlusRelative ==
  last.op \in {"Move", "Copy"} =>
    \A i \in 1..Len(last.log) :
      (last.log[i].act \in TargetSteps /\ Under(Abs(last.log[i].path), Abs(last.src))) =>
        Abs(last.log[i].target) =
          Abs(Join(last.dst, Relative(Abs(last.log[i].path), Abs(last.src))))

\* C12: an entry of the archive that fails at any step ends Unzip: the error
\* of the step is the error Unzip returns, no later entry is processed, and
\* the files written for the entries before it are in place.
C12_UnzipFailFast ==
  last.op = "Unzip" =>
    \A i \in 1..Len(last.log) :
      last.log[i].err # Nil =>
        /\ i = Len(last.log)
        /\ last.err = last.log[i].err
        /\ \A j \in 1..(i - 1) :
             (/\ last.log[j].act = "write"
              /\ \A k \in (j + 1)..i : last.log[k].target # last.log[j].target) =>
               /\ last.log[j].target \in DOMAIN fs
               /\ fs[last.log[j].target].kind = "file"
               /\ fs[last.log[j].target].data =
                    OpenReader(last.pre, last.src).files[j].data

\* C13: a recursive List, ListDirectories or ListFiles of a directory that
\* does not exist returns the empty sequence and no error.
C13_ListOfMissingIsEmpty ==
  (last.op \in ListOps /\ last.rec /\ Abs(last.src) \notin DOMAIN last.pre) =>
    /\ last.out = <<>>
    /\ last.err = Nil

\* a recursive listing of a missing directory, with ignore patterns, in
\* which the walk handed its callback the failure to find the root
C13_Witness ==
  /\ last.op \in {"ListDirectories", "ListFiles"}
  /\ last.rec
  /\ last.pats # <<>>
  /\ Abs(last.src) \notin DOMAIN last.pre
  /\ Len(last.log) = 1
  /\ last.log[1].act = "walk"
  /\ last.log[1].path = Abs(last.src)
  /\ last.log[1].err = Errno.ENOENT

\* C14: a recursive List with no ignore patterns of a directory that exists
\* and whose directories can all be read returns the absolute path of the
\* directory first and then every path below it, each once, in depth-first
\* pre-order: the directory of a path comes before the path, and every path
\* between the two lies below that directory.
C14_RecursiveListPreOrder ==
  (/\ last.op = "List"
   /\ last.rec
   /\ last.pats = <<>>
   /\ Abs(last.src) \in DOMAIN last.pre
   /\ last.pre[Abs(last.src)].kind = "dir"
   /\ \A d \in DOMAIN last.pre :
        (Under(d, Abs(last.src)) /\ last.pre[d].kind = "dir") => Allowed(last.pre[d], "r")) =>
    /\ last.err = Nil
    /\ last.out # <<>>
    /\ last.out[1] = Abs(last.src)
    /\ {last.out[i] : i \in 1..Len(last.out)} =
         {p \in DOMAIN last.pre : Under(p, Abs(last.src))}
    /\ \A i, j \in 1..Len(last.out) : last.out[i] = last.out[j] => i = j
    /\ \A i \in 2..Len(last.out) :
         \E j \in 1..(i - 1) :
           /\ last.out[j] = Dir(last.out[i])
           /\ \A k \in j..i : Under(last.out[k], last.out[j])

\* a recursive List without patterns of a tree three directories deep with
\* two directories side by side
C14_Witness ==
  /\ last.op = "List"
  /\ last.rec
  /\ last.pats = <<>>
  /\ last.err = Nil
  /\ Len(last.out) = 7
  /\ last.out[4] = <<"/","w","/","r","/","a","/","b","/","f",".","t">>
  /\ last.out[5] = <<"/","w","/","r","/","c">>

\* C15: on the same tree, for the same directory, mode and patterns,
\* ListDirectories returns the paths of List that are directories and
\* ListFiles the paths of List that are not, each in the order of List; the
\* two results share no path and together hold every path of List.
C15_ListingsPartitionList ==
  LET all == List(last.pre, last.src, last.rec, last.pats)
      dirs == ListDirectories(last.pre, last.src, last.rec, last.pats)
      files == ListFiles(last.pre, last.src, last.rec, last.pats)
      IsDir(p) == last.pre[p].kind = "dir"
      NotDir(p) == last.pre[p].kind # "dir"
      Paths(s) == {s[i] : i \in 1..Len(s)}
  IN (last.op \in {"ListDirectories", "ListFiles"} /\ all.err = Nil) =>
       /\ last.err = Nil
       /\ last.op = "ListDirectories" => last.out = SelectSeq(all.out, IsDir)
       /\ last.op = "ListFiles" => last.out = SelectSeq(all.out, NotDir)
       /\ Paths(dirs.out) \cap Paths(files.out) = {}
       /\ Paths(dirs.out) \cup Paths(files.out) = Paths(all.out)

\* a recursive ListFiles of a tree with three files and four directories
C15_Witness ==
  /\ last.op = "ListFiles"
  /\ last.rec
  /\ last.pats = <<>>
  /\ Len(last.out) = 3
  /\ Len(List(last.pre, last.src, last.rec, last.pats).out) = 7

\* C16: a Zip without a destination writes the archive to the base name of
\* the source with its final extension taken off and ".zip" put on, in the
\* working directory.
C16_DefaultArchiveName ==
  LET base == Base(last.src)
      stem == SubSeq(base, 1, Len(base) - Len(Ext(base)))
      archive == Join(Cwd, stem \o <<".","z","i","p">>)
  IN (last.op = "Zip" /\ ~last.hasDst /\ last.err = Nil) =>
       /\ archive \in DOMAIN fs
       /\ fs[archive].fmt = "zip"
       /\ \A p \in DOMAIN fs : (p \notin DOMAIN last.pre /\ fs[p].kind = "file") => p = archive

\* C17: after Clean(path) the path is an empty directory, whatever was there
\* before, and nothing outside the path is removed or changed: every path
\* that differs is the path, lies below it, or is a directory above it that
\* was not there.
C17_CleanLeavesEmptyDirectory ==
  last.op = "Clean" =>
    /\ Abs(last.src) \in DOMAIN fs
    /\ fs[Abs(last.src)].kind = "dir"
    /\ \A p \in DOMAIN fs : Under(p, Abs(last.src)) => p = Abs(last.src)
    /\ \A p \in Changed(last.pre, fs) :
         \/ Under(p, Abs(last.src))
         \/ (p \notin DOMAIN last.pre /\ fs[p].kind = "dir" /\ Under(Abs(last.src), p))

\* C18: Exists(path) is true exactly when the stat of the path succeeds;
\* it is false whenever the stat fails, whatever the failure.
C18_ExistsIffStatSucceeds ==
  last.op = "Exists" => last.out = <<Stat(last.pre, last.src).err = Nil>>

\* C19: Touch of a path that is not there makes it a regular file, with the
\* directories above it, when forceDir is not set and the path has an
\* extension or forceFile is set, and a directory otherwise, so always a
\* directory when forceDir is set; nothing else changes; Touch of a path
\* that is there changes nothing; the path returned is the absolute path.
\* (forceFile is the ignore and forceDir the rec of the record of the call;
\* the directories Touch writes to can be written by the user.)
C19_TouchCreatesByFlags ==
  LET abs == Abs(last.src)
      asFile == ~last.rec /\ (last.ignore \/ Ext(abs) # <<>>)
  IN last.op = "Touch" =>
       /\ last.err = Nil
       /\ last.out = <<abs>>
       /\ abs \in DOMAIN last.pre => fs = last.pre
       /\ (abs \notin DOMAIN last.pre /\ Stat(last.pre, abs).err = Errno.ENOENT) =>
            /\ abs \in DOMAIN fs
            /\ fs[abs].kind = (IF asFile THEN "file" ELSE "dir")
            /\ fs[abs].data = ""
            /\ \A p \in Changed(last.pre, fs) :
                 /\ Under(abs, p)
                 /\ p \notin DOMAIN last.pre
                 /\ p # abs => fs[p].kind = "dir"

\* a Touch with forceFile and forceDir both set, of a path with an extension
\* below a directory that was not there: the path is made a directory
C19_Witness ==
  /\ last.op = "Touch"
  /\ last.ignore
  /\ last.rec
  /\ Ext(Abs(last.src)) # <<>>
  /\ Abs(last.src) \notin DOMAIN last.pre
  /\ Dir(Abs(last.src)) \notin DOMAIN last.pre
  /\ Abs(last.src) \in DOMAIN fs
  /\ fs[Abs(last.src)].kind = "dir"

\* C20: a file that WriteTextFile creates has the permission passed, or
\* os.ModePerm when none is passed, and the content of the file afterwards
\* is the text given. (hasDst of the record of the call is whether a
\* permission was passed.)
C20_WriteTextFilePermission ==
  (last.op = "WriteTextFile" /\ last.err = Nil) =>
    /\ Real(last.pre, last.src) \in DOMAIN fs
    /\ fs[Real(last.pre, last.src)].kind = "file"
    /\ fs[Real(last.pre, last.src)].data = Text
    /\ Abs(last.src) \notin DOMAIN last.pre =>
         fs[Abs(last.src)].perm = (IF last.hasDst THEN ReadOnly ELSE Perm.m0777)

\* C21: IsExecutable(path) is true exactly when the path exists and its mode
\* has an execute bit; no other file has a part in the result.
C21_IsExecutableOfThePath ==
  last.op = "IsExecutable" =>
    last.out = <<Stat(last.pre, last.src).err = Nil /\ "x" \in Stat(last.pre, last.src).info.perm>>

\* C22: IsReadable (IsWritable) of a file or directory that exists is true
\* exactly when the user may read (write) it, and of a path that does not
\* exist it is false; neither returns an error nor panics.
C22_ReadableWritableByPermission ==
  last.op \in {"IsReadable", "IsWritable"} =>
    /\ last.err = Nil
    /\ last.out =
         <<(/\ Stat(last.pre, last.src).err = Nil
            /\ Allowed(Stat(last.pre, last.src).info,
                       IF last.op = "IsWritable" THEN "w" ELSE "r"))>>

\* C23: when a call of Touch, IsReadable, IsWritable, Unzip or Zip returns,
\* with an error or without, every handle it opened has been closed: each
\* open is followed by a close of the same handle, so none stays open after
\* any sequence of calls.
C23_HandlesReleased ==
  \A i \in 1..Len(last.log) :
    last.log[i].act = "open" =>
      \E j \in (i + 1)..Len(last.log) :
        /\ last.log[j].act = "close"
        /\ last.log[j].path = last.log[i].path

\* an Unzip that wrote an entry and returned the error of the containment
\* check of a later one, whose reader was open at that point
C23_Witness ==
  /\ last.op = "Unzip"
  /\ last.err = ErrIllegalPath
  /\ Len(last.log) = 8
  /\ last.log[6].act = "open"
  /\ last.log[7].act = "close"
  /\ last.log[7].path = last.log[6].path

\* the sequences that hold the elements of s in some order
Orders(s) ==
  {[i \in 1..Len(s) |-> s[g[i]]] :
     g \in {h \in [1..Len(s) -> 1..Len(s)] : \A i, j \in 1..Len(s) : h[i] = h[j] => i = j}}

\* C24: a listing does not depend on the order of its ignore patterns: the
\* same call with the patterns in any other order, malformed ones included,
\* returns the same sequence and the same error; and without patterns no
\* path is left out: a recursive listing of a directory holds every path of
\* the wanted kind at or below it, a shallow one every entry of it.
C24_PatternOrderIrrelevant ==
  LET Listing(q) ==
        CASE last.op = "List" -> List(last.pre, last.src, last.rec, q)
          [] last.op = "ListDirectories" -> ListDirectories(last.pre, last.src, last.rec, q)
          [] last.op = "ListFiles" -> ListFiles(last.pre, last.src, last.rec, q)
      Wanted(p) ==
        \/ last.op = "List"
        \/ (last.op = "ListDirectories") = (last.pre[p].kind = "dir")
      Listed == {last.out[i] : i \in 1..Len(last.out)}
  IN last.op \in ListOps =>
       /\ \A q \in Orders(last.pats) :
            /\ Listing(q).out = last.out
            /\ Listing(q).err = last.err
       /\ (last.pats = <<>> /\ Abs(last.src) \in DOMAIN last.pre) =>
            \A p \in DOMAIN last.pre :
              (/\ Wanted(p)
               /\ IF last.rec THEN Under(p, Abs(last.src))
                  ELSE p # Abs(last.src) /\ Dir(p) = Abs(last.src)) => p \in Listed

\* a shallow listing with two patterns, the first of which excludes one
\* entry of the three the directory has
C24_Witness ==
  /\ last.op = "List"
  /\ ~last.rec
  /\ Len(last.pats) = 2
  /\ Match(last.pats[1], <<"/","w","/","r","/","c">>).matched
  /\ <<"/","w","/","r","/","c">> \in DOMAIN last.pre
  /\ Len(last.out) = 2

\* C25: the archive a Zip leaves holds one entry for each node of the source
\* tree that is neither a directory nor a symbolic link, and none for a
\* directory; the entries are in the order the walk came to the nodes, and
\* each is named by the path of its node relative to the source root, with
\* the content of the node.
C25_ZipEntriesOfFiles ==
  LET archive == ZipDest(last.src, last.dst, last.hasDst)
      Archived(ev) == ev.act = "archive" /\ ev.err = Nil
      files == SelectSeq(last.log, Archived)
      entries == fs[archive].zip
  IN (last.op = "Zip" /\ last.err = Nil /\ archive \in DOMAIN fs /\ fs[archive].fmt = "zip") =>
       /\ {Abs(files[i].path) : i \in 1..Len(files)} =
            {p \in DOMAIN last.pre :
               Under(p, Abs(last.src)) /\ last.pre[p].kind = "file" /\ p # archive}
       /\ Len(entries) = Len(files)
       /\ \A i \in 1..Len(entries) :
            /\ ~entries[i].isdir
            /\ entries[i].name = Relative(Abs(files[i].path), Abs(last.src))
            /\ entries[i].data = last.pre[Abs(files[i].path)].data

C27_FailedReadWritesEmpty ==
  last.op = "Copy" =>
    \A i \in 1..Len(last.log) :
      (last.log[i].act = "read" /\ last.log[i].err # Nil) =>
        IF last.ignore
        THEN /\ i < Len(last.log)
             /\ last.log[i + 1].act = "write"
             /\ last.log[i + 1].path = last.log[i].path
             /\ last.log[i + 1].target = last.log[i].target
             /\ last.log[i + 1].err = Nil =>
                  /\ Abs(last.log[i].target) \in DOMAIN fs
                  /\ fs[Abs(last.log[i].target)].kind = "file"
                  /\ fs[Abs(last.log[i].target)].data = ""
        ELSE /\ i = Len(last.log)
             /\ last.err = last.log[i].err
             /\ (Abs(last.log[i].target) \in DOMAIN fs) = (Abs(last.log[i].target) \in DOMAIN last.pre)
             /\ Abs(last.log[i].target) \in DOMAIN last.pre =>
                  fs[Abs(last.log[i].target)] = last.pre[Abs(last.log[i].target)]

\* a Copy that ignores errors and could read neither b.t nor c.t: the file
\* o/b.t that had content is empty, and o/c.t, which was not there, is an
\* empty file
C27_Witness ==
  /\ last.op = "Copy"
  /\ last.ignore
  /\ \E i \in 1..Len(last.log) : last.log[i].act = "read" /\ last.log[i].err = Errno.EACCES
  /\ <<"/","w","/","o","/","b",".","t">> \in DOMAIN last.pre
  /\ last.pre[<<"/","w","/","o","/","b",".","t">>].data = "O"
  /\ fs[<<"/","w","/","o","/","b",".","t">>].data = ""
  /\ <<"/","w","/","o","/","c",".","t">> \notin DOMAIN last.pre
  /\ <<"/","w","/","o","/","c",".","t">> \in DOMAIN fs
  /\ fs[<<"/","w","/","o","/","c",".","t">>].kind = "file"
  /\ fs[<<"/","w","/","o","/","c",".","t">>].data = ""

\* C28: every entry of the archive a Zip leaves has a name that is not
\* empty, and its path below a destination passes the containment check of
\* Unzip; also when the source is a regular file.
C28_ZipEntriesNamed ==
  LET archive == ZipDest(last.src, last.dst, last.hasDst)
      dest == <<"/","w","/","d">>
  IN (last.op = "Zip" /\ last.err = Nil /\ archive \in DOMAIN fs) =>
       \A i \in 1..Len(fs[archive].zip) :
         /\ fs[archive].zip[i].name # <<>>
         /\ Contained(Join(dest, fs[archive].zip[i].name), dest)

\* C29: ListFiles and ListDirectories, recursive or shallow, never panic:
\* every item of the listing they filter has its file information, also for
\* an entry of the directory that os.Stat fails on.
C29_ListingsNeverPanic ==
  last.op \in {"ListFiles", "ListDirectories"} => last.err # Panic

\* C30: after a Move of a directory that does not ignore errors and returns
\* nil, every regular file that was under the source has been renamed: it is,
\* with its content, at the path below the destination that the walk mapped
\* it to, and is no longer under the source; every directory and every
\* symbolic link that was under the source, the source included, is still
\* there as it was.
C30_MoveMovesFilesOnly ==
  (/\ last.op = "Move"
   /\ ~last.ignore
   /\ last.err = Nil
   /\ Abs(last.src) \in DOMAIN last.pre
   /\ last.pre[Abs(last.src)].kind = "dir") =>
    \A p \in DOMAIN last.pre :
      Under(p, Abs(last.src)) =>
        IF last.pre[p].kind = "file"
        THEN /\ p \notin DOMAIN fs
             /\ \E i \in 1..Len(last.log) :
                  /\ last.log[i].act = "rename"
                  /\ Abs(last.log[i].path) = p
                  /\ Under(Abs(last.log[i].target), Abs(last.dst))
                  /\ Abs(last.log[i].target) # Abs(last.dst)
                  /\ Abs(last.log[i].target) \in DOMAIN fs
                  /\ fs[Abs(last.log[i].target)] = last.pre[p]
        ELSE /\ p \in DOMAIN fs
             /\ fs[p] = last.pre[p]

\* a Move of the tree with a nested directory and a link: both files are at
\* the destination and gone from the source, the directory and the link are
\* where they were
C30_Witness ==
  /\ last.op = "Move"
  /\ ~last.ignore
  /\ last.err = Nil
  /\ <<"/","w","/","s","/","d","/","b",".","t">> \in DOMAIN last.pre
  /\ <<"/","w","/","s","/","d","/","b",".","t">> \notin DOMAIN fs
  /\ <<"/","w","/","o","/","d","/","b",".","t">> \in DOMAIN fs
  /\ <<"/","w","/","o","/","a",".","t">> \in DOMAIN fs
  /\ <<"/","w","/","s","/","a",".","t">> \notin DOMAIN fs
  /\ fs[<<"/","w","/","s","/","d">>].kind = "dir"
  /\ fs[<<"/","w","/","s","/","l">>].kind = "link"

====
